---- MODULE Spec2Model ----
(***************************************************************************)
(* Model of the vanity address generator's two search engines:             *)
(*   - MaxCoreVanityGenerator (src/max_core_generator.py): worker          *)
(*     processes, two bounded queues, a stop event, the monitor loop and   *)
(*     the escalating stop();                                              *)
(*   - BatchVanityGenerator (src/batch_vanity_generator.py): the simple    *)
(*     and the streaming path of execute_single_task over a process pool.  *)
(* The engines never look inside a key record, so a record is the token    *)
(* Rec; whether an attempt matches is a nondeterministic choice.           *)
(***************************************************************************)
EXTENDS Integers, Sequences, FiniteSets, TLC

\* ---------------------------------------------------------------- bounds
MaxWorkers == 2        \* worker_count ranges over 1..MaxWorkers
MaxCount == 3          \* count ranges over 0..MaxCount (0 = unbounded)
MaxFound == 2          \* matches one worker finds in a run
QueuePerWorker == 1    \* result_queue holds worker_count * QueuePerWorker
StatsPerWorker == 1    \* stats_queue holds worker_count * StatsPerWorker
MaxSignals == 1        \* SIGINT/SIGTERM deliveries per run
MaxRedispatch == 1     \* batches the streaming loop submits after the first round
MaxCpu == 4            \* mp.cpu_count() ranges over 1..MaxCpu
MaxAddressLen == 3     \* characters of an address given to the matcher
MaxPatternLen == 2     \* characters of a pattern given to the matcher
MaxPatternLength == 10 \* len(pattern) of a pattern given to the estimator
MaxRows == 3
MaxSaves == 3          \* outputs written to the CSV directory
MaxClock == 1          \* seconds that pass while they are written
MaxLeadingZeros == 2   \* zero bytes at the head of a hash or key
MaxBatchesDone == 3    \* batches of a streaming task that return or raise
MaxRecords == 1100     \* records an engine receives while it runs a task

\* ------------------------------------------------------ program constants
cooperative_timeout == 2   \* process.join(timeout=2.0)
forced_timeout == 1        \* process.join(timeout=1.0) after terminate()
kill_timeout == 0          \* process.kill() is not followed by a wait
drop_counter == 0          \* the except branch of the put counts nothing
simple_limit == 10         \* use_memory_optimization: count == 0 or count > 10
min_batch_size == 10       \* batch_size = max(10, count // workers)
default_batch_size == 50   \* batch_size of an unbounded task
batch_cap == 50            \* max_batch_size = min(batch_size, 50)
attempt_cap == 50000       \* if attempts >= 50000: break
max_futures == 10          \* max_concurrent_futures = min(workers, 10)
oversubscription == 2      \* min(worker_count, self.cpu_count * 2)
batch_worker_cap == 20     \* workers = min(mp.cpu_count(), 20)

VARIABLES
    \* MaxCoreVanityGenerator
    count,            \* count argument of start_generation
    worker_count,     \* number of spawned workers
    stop_event,       \* mp.Event shared with the workers
    result_queue,     \* mp.Queue of found records
    stats_queue,      \* mp.Queue of WorkerStats snapshots
    found_addresses,  \* list of collected records
    worker_stats,     \* worker_id -> last WorkerStats snapshot
    stack,            \* control stack of the engine's main thread
    wpc,              \* position of each worker process
    results,          \* records a worker still has to send
    found_count,      \* HighPerformanceWorker.found_count
    signals,          \* signals delivered so far
    stop_calls,       \* completed entries into stop()
    final_stats_shown,\* calls of _display_final_stats
    saved,            \* save_results wrote the CSV
    persisted,        \* rows of that CSV
    \* BatchVanityGenerator
    running,          \* self.running of the engine process
    task,             \* the BatchTask: count, status, found_addresses
    workers,          \* workers argument of execute_single_task
    bpc,              \* position of execute_single_task
    futures,          \* worker_id -> state of its future in the dict
    wfound,           \* len(found) of the batch running as worker_id
    wrunning,         \* self.running as the pool process sees it
    completed_futures,\* the done futures the for loop still has to visit
    all_found_addresses, \* length of the list all_found_addresses
    completed_count,  \* completed_count of the streaming loop
    redispatched,     \* batches submitted after the first round
    pool_broken,      \* a pool process died: the executor is broken
    temp_file,        \* match rows of the temporary CSV, -1 when absent
    final_file,       \* match rows of the canonical CSV, -1 when absent
    write_failed,     \* a write of the task's results raised OSError
    \* worker count sizing of start_generation
    cpu_count,        \* mp.cpu_count()
    difficulty,       \* tier label returned by estimate_difficulty
    worker_arg,       \* worker_count argument: given or None, and its value
    sized_workers,    \* worker_count after lines 290-294
    szpc,             \* "idle", "ready" or "sized"
    \* check_address_pattern and the loops that call it
    address,          \* address argument, a sequence of characters
    currency,         \* currency argument
    pattern,          \* pattern argument, a sequence of characters
    pattern_type,     \* pattern_type argument
    ignore_case,      \* ignore_case argument
    matched,          \* what check_address_pattern returned or raised
    attempt,          \* how the worker's loop iteration ended
    mpc,              \* "idle", "ready", "checked" or "attempted"
    \* estimate_pattern_difficulty
    dcurrency,        \* currency argument
    pattern_length,   \* len(pattern)
    level,            \* returned tier label
    probability,      \* returned probability, an unbounded integer
    dpc,              \* "idle", "ready" or "done"
    \* the codecs' generate()
    codec,                \* the network class generate() is called on
    private_key_bytes,    \* 32 bytes, as 16 big-endian 16-bit words
    secp256k1_available,  \* `import secp256k1` succeeds
    keccak_available,     \* `from Crypto.Hash import keccak` succeeds
    sha3_available,       \* hashlib.sha3_256 exists
    pubkey,               \* "none", "secp256k1" or "fallback"
    hash_used,            \* the primitive that hashed the public key
    cpc,                  \* "idle", "ready", "generated" or "error"
    \* a worker's loop iteration, from generate() to the record
    engine,           \* "max_core" or "batch"
    task_currency,    \* currency of the task
    sampled,          \* the random value generate() drew
    key_record,       \* the record appended for a match, or "none"
    rpc,              \* "idle", "ready", "emitted" or "no match"
    \* repeated derivation from one scalar
    scalar,            \* the private key, 0 < scalar < order
    instance_currency, \* currency of the codec instances
    instance,          \* state of the instance that derived last
    derived,           \* the results so far, in order
    \* Base58Check encoding
    payload,          \* the bytes before the checksum
    encoder,          \* the Base58 function that encodes them
    base58_cache,     \* self._base58_cache: pairs of data and string
    num,              \* num of the encoding loop, as bytes
    encoded,          \* encoded of the encoding loop
    produced,         \* the string returned
    epc,              \* "idle", "ready", "loop" or "done"
    \* a match on its way from the worker to the output file
    attempt_engine,   \* "max_core" or "batch"
    attempt_task,     \* currency of the task
    found,            \* the records the engine has collected
    written,          \* the rows of the output file
    \* load_config
    config,           \* the rows csv.reader yields, in order
    file_state,       \* "readable", "missing" or "unreadable"
    line_num,         \* rows read so far
    tasks,            \* the list of accepted tasks
    lpc,              \* "idle", "reading", "returned" or "failed"
    \* the files of the CSV directory
    files,            \* content of each file, by name
    clock,            \* datetime.now(), in seconds
    saves,            \* outputs written so far
    streaming,        \* the temporary file of the running batch task
    fpc,              \* "idle" or "ready"
    \* stop(), process by process
    processes,        \* number of entries of self.processes
    proc,             \* each process: "running", "killed" or "exited"
    stop_i,           \* index of the for loop
    stop_pc,          \* the statement stop() is at
    joined,           \* processes whose cooperative join found them exited
    timeouts,         \* joins of each process that timed out
    terminated,       \* processes terminate() was called on
    killed,           \* processes kill() was called on
    \* one batch of _worker_process_memory_optimized
    self_running,     \* self.running of the worker's copy of the generator
    arg_batch_size,   \* the batch_size argument
    len_found,        \* len(found)
    attempts,         \* attempts
    wbpc,             \* "idle", "loop" or "returned"
    \* the futures dict of the streaming path
    pool_workers,     \* workers
    task_count,       \* task.count
    engine_running,   \* self.running
    in_flight,        \* futures, in insertion order: future, worker_id, state
    done_futures,     \* completed_futures still to be handled by the for loop
    next_future,      \* number of futures submitted so far
    collected,        \* completed_count
    resubmitted,      \* batches submitted after the first round
    batches_done,     \* batches that have returned or raised
    dspc,             \* "idle", "start", "while", "for" or "exit"
    \* execute_batch
    batch_workers,    \* the workers argument, 0 for None
    batch_running,    \* self.running
    next_task,        \* index of the for loop over the tasks
    executed,         \* the calls of execute_single_task, in order
    xpc,              \* "idle", "load", "confirm", "loop", "task" or "done"
    \* the list of retained records and the rows written
    buffer_engine,    \* "max_core" or "batch"
    buffer_count,     \* the count of the task
    in_memory,        \* len(self.found_addresses) / len(all_found_addresses)
    persisted_rows,   \* match rows in the output file or in the temporary file
    received,         \* records the engine has received from its workers
    pending,          \* completed_futures the for loop has still to handle
    cancelled,        \* a signal has been handled
    reported,         \* the number of found addresses announced at the end
    bfpc              \* "idle", "run", "for", "finish" or "returned"

mcvars == <<count, worker_count, stop_event, result_queue, stats_queue,
            found_addresses, worker_stats, stack, wpc, results,
            found_count, signals, stop_calls, final_stats_shown, saved,
            persisted>>

bvars == <<running, task, workers, bpc, futures, wfound, wrunning,
           completed_futures, all_found_addresses, completed_count,
           redispatched, pool_broken, temp_file, final_file, write_failed>>

szvars == <<cpu_count, difficulty, worker_arg, sized_workers, szpc>>

mtvars == <<address, currency, pattern, pattern_type, ignore_case, matched,
            attempt, mpc>>

\* The variables of the pure functions, which the two engines leave alone.
dfvars == <<dcurrency, pattern_length, level, probability, dpc>>

cdvars ==
    <<codec, private_key_bytes, secp256k1_available, keccak_available,
      sha3_available, pubkey, hash_used, cpc>>

rcvars == <<engine, task_currency, sampled, key_record, rpc>>

dtvars == <<scalar, instance_currency, instance, derived>>

bxvars == <<payload, encoder, base58_cache, num, encoded, produced, epc>>

flvars == <<attempt_engine, attempt_task, found, written>>

lcvars == <<config, file_state, line_num, tasks, lpc>>

fsvars == <<files, clock, saves, streaming, fpc>>

skvars == <<processes, proc, stop_i, stop_pc, joined, timeouts, terminated,
            killed>>

wbvars == <<self_running, arg_batch_size, len_found, attempts, wbpc>>

dpvars == <<pool_workers, task_count, engine_running, in_flight, done_futures,
            next_future, collected, resubmitted, batches_done, dspc>>

xbvars == <<batch_workers, batch_running, next_task, executed, xpc>>

bfvars == <<buffer_engine, buffer_count, in_memory, persisted_rows, received,
            pending, cancelled, reported, bfpc>>

purevars == <<szvars, mtvars, dfvars, cdvars, rcvars, dtvars, bxvars, flvars, lcvars, fsvars, skvars, wbvars, dpvars, xbvars, bfvars>>

vars == <<mcvars, bvars, purevars>>

Workers == 0 .. (MaxWorkers - 1)

RECURSIVE SumOver(_, _)
SumOver(f, S) ==
    IF S = {} THEN 0
    ELSE LET x == CHOOSE y \in S : TRUE IN f[x] + SumOver(f, S \ {x})

Max(a, b) == IF a >= b THEN a ELSE b
Min(a, b) == IF a <= b THEN a ELSE b

\* ------------------------------------------------------------- the engine
NoStats == [found |-> -1]

Frame(p) == [pc |-> p, i |-> 0, elapsed |-> 0]

Top == stack[Len(stack)]

SetTop(f) == [stack EXCEPT ![Len(stack)] = f]

Pop == SubSeq(stack, 1, Len(stack) - 1)

At(p) == Len(stack) > 0 /\ Top.pc = p

Spawned == 0 .. (worker_count - 1)

is_alive(w) == wpc[w] \in {"head", "send", "stats", "final"}

ResultCapacity == worker_count * QueuePerWorker

StatsCapacity == worker_count * StatsPerWorker

target_per_worker(c, n) == IF c > 0 THEN Max(1, c \div n) ELSE 0

EnginesIdle ==
    /\ count = 0
    /\ worker_count = 0
    /\ stop_event = FALSE
    /\ result_queue = <<>>
    /\ stats_queue = <<>>
    /\ found_addresses = <<>>
    /\ worker_stats = [w \in Workers |-> NoStats]
    /\ stack = <<>>
    /\ wpc = [w \in Workers |-> "none"]
    /\ results = [w \in Workers |-> 0]
    /\ found_count = [w \in Workers |-> 0]
    /\ signals = 0
    /\ stop_calls = 0
    /\ final_stats_shown = 0
    /\ saved = FALSE
    /\ persisted = <<>>
    /\ running = TRUE
    /\ task = [count |-> 0, status |-> "pending", found_addresses |-> 0]
    /\ workers = 0
    /\ bpc = "idle"
    /\ futures = [id \in Workers |-> "none"]
    /\ wfound = [id \in Workers |-> 0]
    /\ wrunning = [id \in Workers |-> TRUE]
    /\ completed_futures = {}
    /\ all_found_addresses = 0
    /\ completed_count = 0
    /\ redispatched = 0
    /\ pool_broken = FALSE
    /\ temp_file = -1
    /\ final_file = -1
    /\ write_failed = FALSE

SizingIdle ==
    /\ cpu_count = 1
    /\ difficulty = "Ochen legko"
    /\ worker_arg = [given |-> FALSE, value |-> 0]
    /\ sized_workers = 0
    /\ szpc = "idle"

MatchIdle ==
    /\ address = <<>>
    /\ currency = "BTC"
    /\ pattern = <<>>
    /\ pattern_type = "prefix"
    /\ ignore_case = FALSE
    /\ matched = "none"
    /\ attempt = "none"
    /\ mpc = "idle"

DifficultyIdle ==
    /\ dcurrency = "BTC"
    /\ pattern_length = 0
    /\ level = "none"
    /\ probability = <<>>
    /\ dpc = "idle"

CodecIdle ==
    /\ codec = "none"
    /\ private_key_bytes = <<>>
    /\ secp256k1_available = TRUE
    /\ keccak_available = TRUE
    /\ sha3_available = TRUE
    /\ pubkey = "none"
    /\ hash_used = "none"
    /\ cpc = "idle"

RecordIdle ==
    /\ engine = "none"
    /\ task_currency = "BTC"
    /\ sampled = <<>>
    /\ key_record = "none"
    /\ rpc = "idle"

DeriveIdle ==
    /\ scalar = <<>>
    /\ instance_currency = "none"
    /\ instance = "none"
    /\ derived = <<>>

Base58Idle ==
    /\ payload = <<>>
    /\ encoder = "none"
    /\ base58_cache = {}
    /\ num = <<>>
    /\ encoded = <<>>
    /\ produced = <<>>
    /\ epc = "idle"

CollectIdle ==
    /\ attempt_engine = "none"
    /\ attempt_task = "none"
    /\ found = <<>>
    /\ written = <<>>

LoadIdle ==
    /\ config = <<>>
    /\ file_state = "none"
    /\ line_num = 0
    /\ tasks = <<>>
    /\ lpc = "idle"

OutputIdle ==
    /\ files = <<>>
    /\ clock = 0
    /\ saves = 0
    /\ streaming = <<>>
    /\ fpc = "idle"

StopIdle ==
    /\ processes = 0
    /\ proc = <<>>
    /\ stop_i = 0
    /\ stop_pc = "idle"
    /\ joined = {}
    /\ timeouts = <<>>
    /\ terminated = {}
    /\ killed = {}

WorkerBatchIdle ==
    /\ self_running = FALSE
    /\ arg_batch_size = 0
    /\ len_found = 0
    /\ attempts = 0
    /\ wbpc = "idle"

DispatchIdle ==
    /\ pool_workers = 0
    /\ task_count = 0
    /\ engine_running = FALSE
    /\ in_flight = <<>>
    /\ done_futures = <<>>
    /\ next_future = 0
    /\ collected = 0
    /\ resubmitted = 0
    /\ batches_done = 0
    /\ dspc = "idle"

ScheduleIdle ==
    /\ batch_workers = 0
    /\ batch_running = FALSE
    /\ next_task = 0
    /\ executed = <<>>
    /\ xpc = "idle"

BufferIdle ==
    /\ buffer_engine = "none"
    /\ buffer_count = 0
    /\ in_memory = 0
    /\ persisted_rows = 0
    /\ received = 0
    /\ pending = 0
    /\ cancelled = FALSE
    /\ reported = 0
    /\ bfpc = "idle"

Init ==
    /\ EnginesIdle
    /\ SizingIdle
    /\ MatchIdle
    /\ DifficultyIdle
    /\ CodecIdle
    /\ RecordIdle
    /\ DeriveIdle
    /\ CollectIdle
    /\ Base58Idle
    /\ LoadIdle
    /\ OutputIdle
    /\ StopIdle
    /\ WorkerBatchIdle
    /\ DispatchIdle
    /\ ScheduleIdle
    /\ BufferIdle

\* start_generation: fresh queues and stop event, spawn the workers, enter
\* the monitor loop.
StartGeneration ==
    /\ stack = <<>>
    /\ worker_count = 0
    /\ \E c \in 0 .. MaxCount, n \in 1 .. MaxWorkers :
        /\ count' = c
        /\ worker_count' = n
        /\ wpc' = [w \in Workers |-> IF w < n THEN "head" ELSE "none"]
    /\ result_queue' = <<>>
    /\ stats_queue' = <<>>
    /\ stop_event' = FALSE
    /\ stack' = <<Frame("mon_head")>>
    /\ UNCHANGED <<bvars, purevars>>
    /\ UNCHANGED <<found_addresses, worker_stats, results, found_count, signals, stop_calls, final_stats_shown,
                   saved, persisted>>

\* ------------------------------------------------------------ the workers
Rec == "rec"

\* worker.get_stats(): of the WorkerStats snapshot the model keeps worker_id
\* and found (attempts, speed and uptime are for display only).
get_stats(w) == [worker_id |-> w, found |-> found_count[w]]

\* stats_queue.put(stats, timeout=...): the snapshot is enqueued when the
\* queue has room; otherwise queue.Full is raised after the timeout and
\* swallowed, and the snapshot is gone.
PutStats(w) ==
    IF Len(stats_queue) < StatsCapacity
    THEN stats_queue' = Append(stats_queue, get_stats(w))
    ELSE stats_queue' = stats_queue

\* The head of the while loop of optimized_worker_process.  With the stop
\* event set the loop ends, the final snapshot is sent and the process
\* exits.  Otherwise worker.work_batch(batch_size) runs: every match of the
\* batch is counted in found_count and returned in results.
WorkBatch(w) ==
    /\ wpc[w] = "head"
    /\ IF stop_event
       THEN /\ PutStats(w)
            /\ wpc' = [wpc EXCEPT ![w] = "done"]
            /\ UNCHANGED <<results, found_count>>
       ELSE /\ \E k \in 0 .. (MaxFound - found_count[w]) :
                /\ results' = [results EXCEPT ![w] = k]
                /\ found_count' = [found_count EXCEPT ![w] = @ + k]
                /\ wpc' = [wpc EXCEPT ![w] = IF k > 0 THEN "send" ELSE "stats"]
            /\ UNCHANGED stats_queue
    /\ UNCHANGED <<bvars, purevars>>
    /\ UNCHANGED <<count, worker_count, stop_event, result_queue,
                   found_addresses, worker_stats, stack, signals, stop_calls,
                   final_stats_shown, saved, persisted>>

\* A put without timeout: it waits for room in the queue.
BlockingPutResult(w) ==
    /\ Len(result_queue) < ResultCapacity
    /\ result_queue' = Append(result_queue, Rec)

\* result_queue.put(result, timeout=0.1): the record is enqueued when the
\* queue has room; when the queue stays full for the timeout, queue.Full is
\* raised and swallowed by the bare except, and the record is gone.
PutResult(w) ==
    IF Len(result_queue) < ResultCapacity
    THEN result_queue' = Append(result_queue, Rec)
    ELSE result_queue' = result_queue

\* The for loop over the batch's results, one put per step.
SendResult(w) ==
    /\ wpc[w] = "send"
    /\ PutResult(w)
    /\ results' = [results EXCEPT ![w] = @ - 1]
    /\ wpc' = [wpc EXCEPT ![w] = IF results[w] > 1 THEN "send" ELSE "stats"]
    /\ UNCHANGED <<bvars, purevars>>
    /\ UNCHANGED <<count, worker_count, stop_event, stats_queue,
                   found_addresses, worker_stats, stack, found_count,
                   signals, stop_calls, final_stats_shown, saved, persisted>>

\* The periodic snapshot (sent when stats_interval has elapsed, which is a
\* matter of timing) and the per-worker target test that ends the loop.
StatsAndTarget(w) ==
    /\ wpc[w] = "stats"
    /\ \/ PutStats(w)
       \/ stats_queue' = stats_queue
    /\ LET target_count == target_per_worker(count, worker_count) IN
       IF target_count > 0 /\ found_count[w] >= target_count
       THEN wpc' = [wpc EXCEPT ![w] = "final"]
       ELSE wpc' = [wpc EXCEPT ![w] = "head"]
    /\ UNCHANGED <<bvars, purevars>>
    /\ UNCHANGED <<count, worker_count, stop_event, result_queue,
                   found_addresses, worker_stats, stack, results, found_count,
                   signals, stop_calls, final_stats_shown, saved, persisted>>

\* The final snapshot after the loop; the process then exits.
FinalStats(w) ==
    /\ wpc[w] = "final"
    /\ PutStats(w)
    /\ wpc' = [wpc EXCEPT ![w] = "done"]
    /\ UNCHANGED <<bvars, purevars>>
    /\ UNCHANGED <<count, worker_count, stop_event, result_queue,
                   found_addresses, worker_stats, stack, results, found_count,
                   signals, stop_calls, final_stats_shown, saved, persisted>>

Worker(w) ==
    \/ WorkBatch(w)
    \/ SendResult(w)
    \/ StatsAndTarget(w)
    \/ FinalStats(w)

\* ------------------------------------------------- the engine's main thread
\* The while condition of _monitor_progress; leaving the loop returns to
\* start_generation, whose finally clause calls stop().
MonitorHead ==
    /\ At("mon_head")
    /\ IF ~stop_event /\ (count = 0 \/ Len(found_addresses) < count)
       THEN stack' = SetTop(Frame("mon_results"))
       ELSE stack' = <<Frame("after_stop"), Frame("stop_set")>>
    /\ UNCHANGED <<bvars, purevars>>
    /\ UNCHANGED <<count, worker_count, stop_event, result_queue, stats_queue,
                   found_addresses, worker_stats, wpc, results,
                   found_count, signals, stop_calls, final_stats_shown, saved,
                   persisted>>

\* The number of records the inner result loop takes from a queue holding
\* n: it ends on the empty queue, or by the break once count are collected.
Taken(n) ==
    IF n > 0 /\ count > 0 /\ Len(found_addresses) + n >= count
    THEN Max(1, count - Len(found_addresses))
    ELSE n

\* The inner result loop of _monitor_progress: get_nowait and append until
\* the queue is empty; on reaching the target the stop event is set and the
\* loop is left.
MonitorResults ==
    /\ At("mon_results")
    /\ LET n == Taken(Len(result_queue)) IN
        /\ found_addresses' = found_addresses \o SubSeq(result_queue, 1, n)
        /\ result_queue' = SubSeq(result_queue, n + 1, Len(result_queue))
        /\ stop_event' = (stop_event \/ (n > 0 /\ count > 0 /\ Len(found_addresses') >= count))
    /\ stack' = SetTop(Frame("mon_stats"))
    /\ UNCHANGED <<bvars, purevars>>
    /\ UNCHANGED <<count, worker_count, stats_queue, worker_stats, wpc,
                   results, found_count, signals, stop_calls,
                   final_stats_shown, saved, persisted>>

\* A variant of Overwrite that stores the snapshots of q from the last to
\* the first.
RECURSIVE OverwriteReversed(_, _)
OverwriteReversed(m, q) ==
    IF q = <<>> THEN m
    ELSE [OverwriteReversed(m, Tail(q)) EXCEPT
            ![Head(q).worker_id] = [found |-> Head(q).found]]

\* worker_stats after the snapshots of q were stored in order, each
\* overwriting the entry of its worker_id.
RECURSIVE Overwrite(_, _)
Overwrite(m, q) ==
    IF q = <<>> THEN m
    ELSE Overwrite([m EXCEPT ![Head(q).worker_id] = [found |-> Head(q).found]],
                   Tail(q))

\* The inner stats loop of _monitor_progress, then the sleep.
MonitorStats ==
    /\ At("mon_stats")
    /\ worker_stats' = Overwrite(worker_stats, stats_queue)
    /\ stats_queue' = <<>>
    /\ stack' = SetTop(Frame("mon_head"))
    /\ UNCHANGED <<bvars, purevars>>
    /\ UNCHANGED <<count, worker_count, stop_event, result_queue,
                   found_addresses, wpc, results, found_count,
                   signals, stop_calls, final_stats_shown, saved, persisted>>

\* _signal_handler: SIGINT or SIGTERM runs stop() on top of whatever the
\* main thread was doing, which resumes when the handler returns.
SignalHandler ==
    /\ Len(stack) > 0
    /\ Top.pc # "end"
    /\ signals < MaxSignals
    /\ signals' = signals + 1
    /\ stack' = Append(stack, Frame("stop_set"))
    /\ UNCHANGED <<bvars, purevars>>
    /\ UNCHANGED <<count, worker_count, stop_event, result_queue, stats_queue,
                   found_addresses, worker_stats, wpc, results,
                   found_count, stop_calls, final_stats_shown, saved,
                   persisted>>

\* stop(): self.stop_event.set()
StopSet ==
    /\ At("stop_set")
    /\ stop_event' = TRUE
    /\ stop_calls' = stop_calls + 1
    /\ stack' = SetTop(Frame("join"))
    /\ UNCHANGED <<bvars, purevars>>
    /\ UNCHANGED <<count, worker_count, result_queue, stats_queue,
                   found_addresses, worker_stats, wpc, results,
                   found_count, signals, final_stats_shown, saved, persisted>>

\* One pass of the for loop of stop() over self.processes, for process i:
\*   process.join(timeout=2.0); a process that has exited is passed over;
\*   for one still alive the timeout elapses (a worker sending a batch on a
\*   full queue waits 0.1 s per record) and process.terminate() follows;
\*   SIGTERM ends the worker within process.join(timeout=1.0), or the worker
\*   outlives it (a forked worker inherits the engine's SIGTERM handler) and
\*   process.kill() ends it.
StopProcess ==
    /\ At("join")
    /\ Top.i < worker_count
    /\ IF is_alive(Top.i)
       THEN /\ wpc' = [wpc EXCEPT ![Top.i] = "dead"]
            /\ \/ stack' = SetTop([Top EXCEPT !.i = @ + 1,
                        !.elapsed = @ + cooperative_timeout])
               \/ stack' = SetTop([Top EXCEPT !.i = @ + 1,
                        !.elapsed = @ + cooperative_timeout + forced_timeout
                                      + kill_timeout])
       ELSE /\ wpc' = wpc
            /\ stack' = SetTop([Top EXCEPT !.i = @ + 1])
    /\ UNCHANGED <<bvars, purevars>>
    /\ UNCHANGED <<count, worker_count, stop_event, result_queue, stats_queue,
                   found_addresses, worker_stats, results,
                   found_count, signals, stop_calls, final_stats_shown, saved,
                   persisted>>

\* _collect_final_results, once the for loop is over: every record left in
\* the queue is appended.
CollectFinalResults ==
    /\ At("join")
    /\ Top.i >= worker_count
    /\ found_addresses' = found_addresses \o result_queue
    /\ result_queue' = <<>>
    /\ stack' = SetTop([Top EXCEPT !.pc = "final_stats"])
    /\ UNCHANGED <<bvars, purevars>>
    /\ UNCHANGED <<count, worker_count, stop_event, stats_queue, worker_stats,
                   wpc, results, found_count, signals, stop_calls,
                   final_stats_shown, saved, persisted>>

\* _display_final_stats, after which stop() returns to its caller.
DisplayFinalStats ==
    /\ At("final_stats")
    /\ final_stats_shown' = final_stats_shown + 1
    /\ stack' = Pop
    /\ UNCHANGED <<bvars, purevars>>
    /\ UNCHANGED <<count, worker_count, stop_event, result_queue, stats_queue,
                   found_addresses, worker_stats, wpc, results,
                   found_count, signals, stop_calls, saved, persisted>>

\* main() after start_generation: save_results when found_addresses is not
\* empty; every record of the list becomes a row of the CSV.
SaveResults ==
    /\ At("after_stop")
    /\ IF found_addresses # <<>>
       THEN saved' = TRUE /\ persisted' = found_addresses
       ELSE UNCHANGED <<saved, persisted>>
    /\ stack' = SetTop(Frame("end"))
    /\ UNCHANGED <<bvars, purevars>>
    /\ UNCHANGED <<count, worker_count, stop_event, result_queue, stats_queue,
                   found_addresses, worker_stats, wpc, results,
                   found_count, signals, stop_calls, final_stats_shown>>

Engine ==
    \/ StartGeneration
    \/ MonitorHead
    \/ MonitorResults
    \/ MonitorStats
    \/ SignalHandler
    \/ StopSet
    \/ StopProcess
    \/ CollectFinalResults
    \/ DisplayFinalStats
    \/ SaveResults

\* The workers while the engine does not drain the queues: it starts the
\* run and at most sets the stop event.  The workers are processes of their
\* own, so each keeps taking steps.
NoDrain ==
    \/ StartGeneration
    \/ SignalHandler
    \/ StopSet
    \/ \E w \in Workers : Worker(w)

NoDrainSpec ==
    Init /\ [][NoDrain]_vars /\ \A w \in Workers : WF_vars(Worker(w))

C33_SingleConsumer ==
    [][ /\ (\/ Len(result_queue') < Len(result_queue)
            \/ Len(stats_queue') < Len(stats_queue)
            \/ found_addresses' # found_addresses
            \/ worker_stats' # worker_stats)
           => \A k \in 1 .. Len(stack) - 1 :
                 stack[k].pc \notin {"mon_results", "mon_stats"}
        /\ stack' = stack => stop_event' = stop_event
      ]_vars

\* ------------------------------------------------- BatchVanityGenerator
mcidle == <<count, worker_count, stop_event, result_queue, stats_queue,
            found_addresses, worker_stats, stack, wpc, results, found_count,
            signals, stop_calls, final_stats_shown, saved, persisted>>

\* The tasks execute_single_task is run on: <<count, workers>>, with count
\* 1 and 2 on the simple path, 11 the smallest bounded count of the
\* streaming path and 0 unbounded.
Tasks == {<<0, 1>>, <<1, 1>>, <<1, 2>>, <<2, 1>>, <<11, 1>>, <<11, 2>>}

use_memory_optimization == task.count = 0 \/ task.count > simple_limit

batch_size ==
    IF task.count > 0 THEN Max(min_batch_size, task.count \div workers)
    ELSE default_batch_size

max_batch_size == Min(batch_size, batch_cap)

max_concurrent_futures == Min(workers, max_futures)

InDict == {id \in Workers : futures[id] # "none"}

\* executor.submit(self._worker_process..., worker_id): the bound method is
\* pickled with self, so the pool process works on a copy of the engine
\* object, made when the batch is submitted.
Submit(ids) ==
    /\ futures' = [id \in Workers |-> IF id \in ids THEN "running" ELSE futures[id]]
    /\ wfound' = [id \in Workers |-> IF id \in ids THEN 0 ELSE wfound[id]]
    /\ wrunning' = [id \in Workers |-> IF id \in ids THEN running ELSE wrunning[id]]

\* The head of the for loop of execute_batch: with self.running false the
\* loop is left, otherwise execute_single_task is called on the next task.
ExecuteBatchNext ==
    /\ bpc = "idle"
    /\ running
    /\ bpc' = "start"
    /\ UNCHANGED <<running, task, workers, futures, wfound, wrunning,
                   completed_futures, all_found_addresses, completed_count,
                   redispatched, pool_broken, temp_file, final_file>>
    /\ UNCHANGED write_failed
    /\ UNCHANGED <<mcidle, purevars>>

\* execute_single_task up to the first round of submits (the difficulty is
\* estimated and printed, and the pool created, without a look at
\* self.running): the simple path submits one _worker_process with
\* target_count = task.count, the streaming path opens the temporary CSV,
\* writes its header and submits max_concurrent_futures batches.
ExecuteSingleTask ==
    /\ bpc = "start"
    /\ \E t \in Tasks :
        /\ task' = [task EXCEPT !.count = t[1], !.status = "running"]
        /\ workers' = t[2]
        /\ IF t[1] = 0 \/ t[1] > simple_limit
           THEN /\ bpc' = "while"
                /\ temp_file' = 0
                /\ Submit(0 .. (Min(t[2], max_futures) - 1))
           ELSE /\ bpc' = "simple"
                /\ temp_file' = temp_file
                /\ Submit({0})
    /\ UNCHANGED <<running, completed_futures, all_found_addresses,
                   completed_count, redispatched, pool_broken, final_file>>
    /\ UNCHANGED write_failed
    /\ UNCHANGED <<mcidle, purevars>>

\* _signal_handler of the batch engine.
BatchSignalHandler ==
    /\ bpc \notin {"idle", "end"}
    /\ running
    /\ running' = FALSE
    /\ UNCHANGED <<task, workers, bpc, futures, wfound, wrunning,
                   completed_futures, all_found_addresses, completed_count,
                   redispatched, pool_broken, temp_file, final_file>>
    /\ UNCHANGED write_failed
    /\ UNCHANGED <<mcidle, purevars>>

\* One iteration of the loop of _worker_process (simple path) in the pool
\* process: the loop runs while its copy of self.running is true; a match
\* is appended, and the loop is left on target_count matches.
WorkerProcess(id) ==
    /\ ~use_memory_optimization
    /\ futures[id] = "running"
    /\ IF wrunning[id]
       THEN /\ wfound' = [wfound EXCEPT ![id] = @ + 1]
            /\ futures' = [futures EXCEPT ![id] =
                 IF task.count > 0 /\ wfound'[id] >= task.count
                 THEN "done" ELSE "running"]
       ELSE /\ futures' = [futures EXCEPT ![id] = "done"]
            /\ wfound' = wfound
    /\ UNCHANGED <<running, task, workers, bpc, wrunning, completed_futures,
                   all_found_addresses, completed_count, redispatched,
                   pool_broken, temp_file, final_file>>
    /\ UNCHANGED write_failed
    /\ UNCHANGED <<mcidle, purevars>>

\* One iteration of the loop of _worker_process_memory_optimized: the loop
\* runs while the copy of self.running is true and fewer than
\* max_batch_size matches are held; an iteration appends a match, or is the
\* one that reaches 50000 attempts and breaks.
WorkerProcessMemoryOptimized(id) ==
    /\ use_memory_optimization
    /\ futures[id] = "running"
    /\ IF wrunning[id] /\ wfound[id] < max_batch_size
       THEN \/ /\ wfound' = [wfound EXCEPT ![id] = @ + 1]
               /\ futures' = futures
            \/ /\ wfound' = wfound
               /\ futures' = [futures EXCEPT ![id] = "done"]
       ELSE /\ futures' = [futures EXCEPT ![id] = "done"]
            /\ wfound' = wfound
    /\ UNCHANGED <<running, task, workers, bpc, wrunning, completed_futures,
                   all_found_addresses, completed_count, redispatched,
                   pool_broken, temp_file, final_file>>
    /\ UNCHANGED write_failed
    /\ UNCHANGED <<mcidle, purevars>>

\* A pool process dies while batches run: the executor is broken, the
\* result() of every future that had not finished raises BrokenProcessPool,
\* and so does every later submit.
PoolProcessDies ==
    /\ use_memory_optimization
    /\ ~pool_broken
    /\ \E id \in Workers : futures[id] = "running"
    /\ pool_broken' = TRUE
    /\ futures' = [id \in Workers |->
                     IF futures[id] = "running" THEN "raised" ELSE futures[id]]
    /\ UNCHANGED <<running, task, workers, bpc, wfound, wrunning,
                   completed_futures, all_found_addresses, completed_count,
                   redispatched, temp_file, final_file>>
    /\ UNCHANGED write_failed
    /\ UNCHANGED <<mcidle, purevars>>

\* Simple path: future.result() returns the worker's list, and the with
\* block of the executor ends.
SimpleResult ==
    /\ bpc = "simple"
    /\ futures[0] = "done"
    /\ all_found_addresses' = wfound[0]
    /\ futures' = [futures EXCEPT ![0] = "none"]
    /\ bpc' = "finish"
    /\ UNCHANGED <<running, task, workers, wfound, wrunning,
                   completed_futures, completed_count, redispatched,
                   pool_broken, temp_file, final_file>>
    /\ UNCHANGED write_failed
    /\ UNCHANGED <<mcidle, purevars>>

\* Streaming path: the while condition and the scan for done futures.  With
\* none done the loop sleeps and tests again.
WhileFutures ==
    /\ bpc = "while"
    /\ IF InDict # {} /\ running
       THEN /\ \E id \in InDict : futures[id] # "running"
            /\ completed_futures' = {id \in InDict : futures[id] # "running"}
            /\ bpc' = "for"
       ELSE /\ completed_futures' = completed_futures
            /\ bpc' = "shutdown"
    /\ UNCHANGED <<running, task, workers, futures, wfound, wrunning,
                   all_found_addresses, completed_count, redispatched,
                   pool_broken, temp_file, final_file>>
    /\ UNCHANGED write_failed
    /\ UNCHANGED <<mcidle, purevars>>

\* The memory limit test that follows the for loop: above 1000 records the
\* list keeps its last 100.
MemoryLimit(n) == IF n > 1000 THEN 100 ELSE n

\* One pass of the for loop over completed_futures.  Not running: break.
\* A future whose result() raises is deleted.  Otherwise the batch's rows
\* are written to the temporary CSV and flushed, the list and the counters
\* grow, the future is deleted; on reaching task.count the rest is
\* cancelled and the dict cleared; else the same worker_id is submitted
\* again (a submit that raises is caught like a result() that raises, with
\* the future already deleted).  A writerows or flush that raises OSError is
\* caught by the same except clause: the future is deleted and the loop
\* goes on.  After the last future comes the memory limit test.
ForCompleted ==
    /\ bpc = "for"
    /\ IF ~running \/ completed_futures = {}
       THEN /\ bpc' = "while"
            /\ completed_futures' = {}
            /\ all_found_addresses' = MemoryLimit(all_found_addresses)
            /\ UNCHANGED <<futures, wfound, wrunning, completed_count,
                           redispatched, temp_file, write_failed>>
       ELSE \E id \in completed_futures :
            IF futures[id] = "raised"
            THEN /\ futures' = [futures EXCEPT ![id] = "none"]
                 /\ completed_futures' = completed_futures \ {id}
                 /\ UNCHANGED <<bpc, wfound, wrunning, all_found_addresses,
                                completed_count, redispatched, temp_file,
                                write_failed>>
            ELSE \/ /\ wfound[id] > 0
                    /\ write_failed' = TRUE
                    /\ futures' = [futures EXCEPT ![id] = "none"]
                    /\ completed_futures' = completed_futures \ {id}
                    /\ UNCHANGED <<bpc, wfound, wrunning, all_found_addresses,
                                   completed_count, redispatched, temp_file>>
                 \/ /\ temp_file' = temp_file + wfound[id]
                    /\ all_found_addresses' = all_found_addresses + wfound[id]
                    /\ completed_count' = completed_count + wfound[id]
                    /\ write_failed' = write_failed
                    /\ IF task.count > 0 /\ completed_count' >= task.count
                       THEN /\ futures' = [i \in Workers |-> "none"]
                            /\ completed_futures' = {}
                            /\ UNCHANGED <<bpc, wfound, wrunning, redispatched>>
                       ELSE IF pool_broken
                       THEN /\ futures' = [futures EXCEPT ![id] = "none"]
                            /\ completed_futures' = completed_futures \ {id}
                            /\ UNCHANGED <<bpc, wfound, wrunning, redispatched>>
                       ELSE /\ redispatched < MaxRedispatch
                            /\ redispatched' = redispatched + 1
                            /\ Submit({id})
                            /\ completed_futures' = completed_futures \ {id}
                            /\ bpc' = bpc
    /\ UNCHANGED <<running, task, workers, pool_broken, final_file>>
    /\ UNCHANGED <<mcidle, purevars>>

\* The end of the with block of the executor: shutdown waits for the
\* batches that are still running; their results are not collected.
ExecutorShutdown ==
    /\ bpc = "shutdown"
    /\ \A id \in Workers : futures[id] # "running"
    /\ bpc' = "finish"
    /\ UNCHANGED <<running, task, workers, futures, wfound, wrunning,
                   completed_futures, all_found_addresses, completed_count,
                   redispatched, pool_broken, temp_file, final_file>>
    /\ UNCHANGED write_failed
    /\ UNCHANGED <<mcidle, purevars>>

\* The common end of execute_single_task: the status, the found count taken
\* from the list, and the canonical CSV.  The simple path opens the
\* canonical file for writing, which creates it, and writes the header; the
\* rows follow one by one.  The streaming path renames the temporary CSV to
\* the canonical name, or deletes it when the list is empty.
FinishTask ==
    /\ bpc = "finish"
    /\ task' = [task EXCEPT !.status = "completed",
                            !.found_addresses = all_found_addresses]
    /\ completed_count' = all_found_addresses
    /\ IF ~use_memory_optimization
       THEN IF all_found_addresses > 0
            THEN final_file' = 0 /\ temp_file' = temp_file /\ bpc' = "write"
            ELSE final_file' = final_file /\ temp_file' = temp_file
                 /\ bpc' = "end"
       ELSE /\ IF all_found_addresses > 0
               THEN final_file' = temp_file /\ temp_file' = -1
               ELSE final_file' = final_file /\ temp_file' = -1
            /\ bpc' = "end"
    /\ UNCHANGED <<running, workers, futures, wfound, wrunning,
                   completed_futures, all_found_addresses, redispatched,
                   pool_broken>>
    /\ UNCHANGED write_failed
    /\ UNCHANGED <<mcidle, purevars>>

\* The simple path's loop over all_found_addresses: one writer.writerow per
\* record; after the last one the file is closed and the task is done.
WriteRow ==
    /\ bpc = "write"
    /\ final_file' = final_file + 1
    /\ bpc' = IF final_file' >= all_found_addresses THEN "end" ELSE "write"
    /\ UNCHANGED <<running, task, workers, futures, wfound, wrunning,
                   completed_futures, all_found_addresses, completed_count,
                   redispatched, pool_broken, temp_file>>
    /\ UNCHANGED write_failed
    /\ UNCHANGED <<mcidle, purevars>>

\* A writerow of the simple path raises OSError (disk full, I/O error):
\* nothing in execute_single_task catches it, and neither does the for
\* loop of execute_batch that called it.
WriteRowFails ==
    /\ bpc = "write"
    /\ write_failed' = TRUE
    /\ bpc' = "raised"
    /\ UNCHANGED <<running, task, workers, futures, wfound, wrunning,
                   completed_futures, all_found_addresses, completed_count,
                   redispatched, pool_broken, temp_file, final_file>>
    /\ UNCHANGED <<mcidle, purevars>>

\* The engine process and its pool die while the task is being executed
\* (power loss, SIGKILL): what is on disk stays as it is.
Crash ==
    /\ bpc \notin {"idle", "end", "raised", "crashed"}
    /\ bpc' = "crashed"
    /\ futures' = [id \in Workers |-> "none"]
    /\ UNCHANGED <<running, task, workers, wfound, wrunning,
                   completed_futures, all_found_addresses, completed_count,
                   redispatched, pool_broken, temp_file, final_file>>
    /\ UNCHANGED write_failed
    /\ UNCHANGED <<mcidle, purevars>>

BatchEngine ==
    \/ ExecuteBatchNext
    \/ ExecuteSingleTask
    \/ BatchSignalHandler
    \/ SimpleResult
    \/ WhileFutures
    \/ ForCompleted
    \/ ExecutorShutdown
    \/ FinishTask
    \/ WriteRow
    \/ WriteRowFails
    \/ Crash

Batch ==
    \/ BatchEngine
    \/ \E id \in Workers : WorkerProcess(id)
    \/ \E id \in Workers : WorkerProcessMemoryOptimized(id)
    \/ PoolProcessDies

BatchSpec == Init /\ [][Batch]_vars

\* C34: when a task starts running, the number of search workers started
\* equals the worker count of the task.
C34_WorkersEqualWorkerCount ==
    [][ (bpc = "start" /\ bpc' # "start") =>
           Cardinality({id \in Workers : futures'[id] = "running"}) = workers'
      ]_vars

\* ----------------------------------------------- claims, batch engine
\* C2: for a bounded task neither CSV of the task ever holds more match
\* rows than task.count.
C2_RowsWithinCount ==
    task.count > 0 => (temp_file <= task.count /\ final_file <= task.count)

\* C5: an unbounded task is completed only after a cancellation.
C5_UnboundedUntilCancelled ==
    (task.count = 0 /\ task.status = "completed") => ~running

\* C6: once the engine has requested cancellation, no loop iteration of a
\* worker searches on (finds another match).
C6_WorkersObserveCancel ==
    [][\A id \in Workers :
         (~running /\ futures[id] = "running") => wfound'[id] <= wfound[id]]_vars

\* C11: after a crash the canonical CSV of the task is absent or holds every
\* record of the task, never a part of them.
C11_CanonicalAbsentOrComplete ==
    bpc = "crashed" => (final_file = -1 \/ final_file >= all_found_addresses)

\* C12: on the streaming path the temporary CSV becomes the canonical one
\* only for a task that completed (a bounded task: its target reached), and
\* a task ending with zero matches leaves neither file.
C12_RenameOnlyOnSuccess ==
    use_memory_optimization =>
        /\ (task.count > 0 /\ final_file # -1) => final_file >= task.count
        /\ (bpc = "end" /\ task.found_addresses = 0)
              => (final_file = -1 /\ temp_file = -1)

\* C13: a task one of whose result writes failed ends with status failed,
\* and ends by returning to execute_batch, not by raising through it.
C13_WriteFailureMarksFailed ==
    (write_failed /\ bpc \in {"end", "raised"})
        => (task.status = "failed" /\ bpc = "end")

\* C40: once self.running is false, no worker batch is submitted and no
\* task is started.
C40_NothingStartsAfterCancel ==
    [][ ~running =>
          /\ \A id \in Workers :
               futures'[id] = "running" => futures[id] = "running"
          /\ bpc' = "start" => bpc = "start"
      ]_vars

\* --------------------------------------------- claims, MaxCore engine
InMonitor == Len(stack) = 1 /\ Top.pc \in {"mon_head", "mon_results", "mon_stats"}

\* Records found by a worker that it still has to put on the result queue.
InFlight == SumOver([w \in Workers |-> IF is_alive(w) THEN results[w] ELSE 0], Workers)

TotalFound == SumOver(found_count, Workers)

\* C1: for a bounded task the rows save_results writes never exceed count.
C1_PersistedWithinCount ==
    (saved /\ count > 0) => Len(persisted) <= count

\* C3: at every point, the records the engine holds (collected, queued or
\* still to be sent by a live worker) are the sum of the workers' found
\* counters minus the drop counter.
C3_Conservation ==
    Len(found_addresses) + Len(result_queue) + InFlight
        = TotalFound - drop_counter

\* C4: the workers never all exit on their per-worker targets, every match
\* delivered, while the monitor loop of a bounded task still waits for
\* matches that are neither collected nor queued.
C4_TargetsCoverCount ==
    ( /\ count > 0
      /\ InMonitor
      /\ ~stop_event
      /\ \A w \in Spawned : wpc[w] = "done"
      /\ TotalFound = Len(found_addresses) + Len(result_queue) )
    => Len(found_addresses) + Len(result_queue) >= count

\* C7: in every call of stop(), the time from setting the stop event to the
\* end of the last worker is at most the three timeouts together.
C7_BoundedShutdown ==
    \A j \in 1 .. Len(stack) :
        stack[j].elapsed <= cooperative_timeout + forced_timeout + kill_timeout

\* C8: stop signalling and worker escalation (Draining) and the residual
\* drain with the final statistics (Finalizing) happen once per task.
C8_PhasesOnce ==
    stop_calls <= 1 /\ final_stats_shown <= 1

\* C9: a worker that is at one of its sends (a record, the periodic
\* snapshot, the final snapshot) gets back to the head of its loop or
\* exits, whatever the queues hold and though nothing drains them.
C9_SendsDoNotBlock ==
    \A w \in Workers :
        (wpc[w] \in {"send", "stats", "final"}) ~> (wpc[w] \in {"head", "done"})

\* A worker is back at the head of its loop after giving up a record on the
\* full result queue, with the stat queue full as well.
C9_Witness ==
    \E w \in Spawned :
        /\ wpc[w] = "head"
        /\ found_count[w] > 0
        /\ Len(result_queue) = ResultCapacity
        /\ Len(stats_queue) = StatsCapacity
        /\ found_addresses = <<>>
        /\ TotalFound > Len(result_queue) + InFlight

\* C10: a worker never drops a record (a put on the full result queue that
\* gives up) without a counter it exposes in its statistics changing.
C10_DropCounted ==
    [][\A w \in Workers :
         (wpc[w] = "send" /\ results'[w] < results[w]
            /\ wpc'[w] # "dead" /\ result_queue' = result_queue)
         => get_stats(w)' # get_stats(w)]_vars

\* ------------------------------------------------------ worker count sizing
\* The tier labels of estimate_pattern_difficulty, transliterated, in rising
\* order: "Очень легко", "Легко", "Средне", "Сложно", "Очень сложно",
\* "Экстремально сложно".
Levels ==
    <<"Ochen legko", "Legko", "Sredne", "Slozhno", "Ochen slozhno",
      "Ekstremalno slozhno">>

\* complexity_multiplier of calculate_optimal_workers, in tenths.  Its last
\* key is "Экстремально", which is not the label of the last tier.
complexity_multiplier ==
    [k \in {"Ochen legko", "Legko", "Sredne", "Slozhno", "Ochen slozhno",
            "Ekstremalno"} |->
        CASE k = "Ochen legko" -> 10
          [] k = "Legko" -> 10
          [] k = "Sredne" -> 9
          [] k = "Slozhno" -> 8
          [] k = "Ochen slozhno" -> 7
          [] k = "Ekstremalno" -> 6]

\* calculate_optimal_workers: multiplier = complexity_multiplier.get(level,
\* 1.0); optimal = int(base_workers * multiplier); max(1, optimal).  For
\* cpu_count up to 89 the float product truncates to the exact floor.
calculate_optimal_workers(complexity_level) ==
    LET base_workers == cpu_count
        multiplier == IF complexity_level \in DOMAIN complexity_multiplier
                      THEN complexity_multiplier[complexity_level]
                      ELSE 10
        optimal == (base_workers * multiplier) \div 10
    IN Max(1, optimal)

\* The machine, the tier of the task and the worker_count argument.
SizingReady ==
    /\ cpu_count \in 1 .. MaxCpu
    /\ difficulty \in {Levels[i] : i \in 1 .. Len(Levels)}
    /\ worker_arg \in
         {[given |-> FALSE, value |-> 0]}
         \cup {[given |-> TRUE, value |-> v] :
                  v \in -1 .. (oversubscription * MaxCpu + 1)}
    /\ sized_workers = 0
    /\ szpc = "ready"

\* start_generation, worker_count is None:
\* worker_count = self.calculate_optimal_workers(difficulty)
AutomaticSizing ==
    /\ szpc = "ready"
    /\ ~worker_arg.given
    /\ sized_workers' = calculate_optimal_workers(difficulty)
    /\ szpc' = "sized"
    /\ UNCHANGED <<cpu_count, difficulty, worker_arg>>
    /\ UNCHANGED <<mcvars, bvars, mtvars, dfvars, cdvars, rcvars, dtvars, bxvars, flvars, lcvars, fsvars, skvars, wbvars, dpvars, xbvars, bfvars>>

\* start_generation, worker_count given:
\* worker_count = min(worker_count, self.cpu_count * 2)
OverrideSizing ==
    /\ szpc = "ready"
    /\ worker_arg.given
    /\ sized_workers' = Min(worker_arg.value, cpu_count * oversubscription)
    /\ szpc' = "sized"
    /\ UNCHANGED <<cpu_count, difficulty, worker_arg>>
    /\ UNCHANGED <<mcvars, bvars, mtvars, dfvars, cdvars, rcvars, dtvars, bxvars, flvars, lcvars, fsvars, skvars, wbvars, dpvars, xbvars, bfvars>>

\* execute_single_task: if not workers: workers = min(mp.cpu_count(), 20);
\* any other value is handed to ProcessPoolExecutor as it is.
BatchSizing ==
    /\ szpc = "ready"
    /\ sized_workers' = IF ~worker_arg.given \/ worker_arg.value = 0
                        THEN Min(cpu_count, batch_worker_cap)
                        ELSE worker_arg.value
    /\ szpc' = "sized_batch"
    /\ UNCHANGED <<cpu_count, difficulty, worker_arg>>
    /\ UNCHANGED <<mcvars, bvars, mtvars, dfvars, cdvars, rcvars, dtvars, bxvars, flvars, lcvars, fsvars, skvars, wbvars, dpvars, xbvars, bfvars>>

Sizing ==
    \/ AutomaticSizing
    \/ OverrideSizing
    \/ BatchSizing

SizingInit ==
    /\ EnginesIdle
    /\ SizingReady
    /\ MatchIdle
    /\ DifficultyIdle
    /\ CodecIdle
    /\ RecordIdle
    /\ DeriveIdle
    /\ CollectIdle
    /\ Base58Idle
    /\ LoadIdle
    /\ OutputIdle
    /\ StopIdle
    /\ WorkerBatchIdle
    /\ DispatchIdle
    /\ ScheduleIdle
    /\ BufferIdle

SizingSpec == SizingInit /\ [][Sizing]_vars

\* The multiplier of each tier, in tenths.
tier_multiplier(tier) ==
    CASE tier = "Ochen legko" -> 10
      [] tier = "Legko" -> 10
      [] tier = "Sredne" -> 9
      [] tier = "Slozhno" -> 8
      [] tier = "Ochen slozhno" -> 7
      [] tier = "Ekstremalno slozhno" -> 6

\* The integers nearest to n / 10 (two of them on a tie).
Nearest(n) ==
    {r \in 0 .. (oversubscription * MaxCpu) :
        2 * (10 * r - n) <= 10 /\ 2 * (n - 10 * r) <= 10}

\* C14: with automatic sizing the worker count is cpu_count times the
\* tier's multiplier, rounded to the nearest integer and clamped to
\* 1 .. 2 * cpu_count.
C14_AutomaticSizing ==
    (szpc = "sized" /\ ~worker_arg.given) =>
        \E r \in Nearest(cpu_count * tier_multiplier(difficulty)) :
            sized_workers = Min(Max(1, r), oversubscription * cpu_count)

\* C15: with an explicit worker count, whatever its value, the number of
\* workers used lies in 1 .. 2 * cpu_count, in both engines.
C15_OverrideClamped ==
    (szpc \in {"sized", "sized_batch"} /\ worker_arg.given) =>
        (1 <= sized_workers /\ sized_workers <= oversubscription * cpu_count)

\* C39: the tier given to calculate_optimal_workers has an entry in
\* complexity_multiplier, and the automatically sized worker count is no
\* greater than the count the same machine gets for any easier tier.
C39_HarderTierNoMoreWorkers ==
    (szpc = "sized" /\ ~worker_arg.given) =>
        /\ difficulty \in DOMAIN complexity_multiplier
        /\ \A i, j \in 1 .. Len(Levels) :
             (i < j /\ Levels[j] = difficulty) =>
                sized_workers <= calculate_optimal_workers(Levels[i])

\* ------------------------------------------------------ the pattern matcher
\* Characters of the addresses and patterns: a digit, the x of the EVM
\* prefix, and a letter in both cases.
Chars == {"0", "x", "a", "A"}

Strings(n) == UNION {[1 .. k -> Chars] : k \in 0 .. n}

Currencies == {"BTC", "LTC", "DOGE", "ETH", "TRX", "BSC", "MATIC", "ARB", "OP"}

\* "regex" stands for any pattern_type that is neither prefix nor suffix.
PatternTypes == {"prefix", "suffix", "regex"}

\* str.lower()
lower(s) == [i \in 1 .. Len(s) |-> IF s[i] = "A" THEN "a" ELSE s[i]]

\* str.startswith(p) and str.endswith(p)
startswith(s, p) == Len(p) <= Len(s) /\ SubSeq(s, 1, Len(p)) = p

endswith(s, p) == Len(p) <= Len(s) /\ SubSeq(s, Len(s) - Len(p) + 1, Len(s)) = p

\* A variant of strip_0x that strips the prefix whatever the currency.
strip_0x_any(a, c) ==
    IF startswith(a, <<"0", "x">>) THEN SubSeq(a, 3, Len(a)) ELSE a

\* Lines 24-27: the 0x prefix is removed for the EVM currencies.
strip_0x(a, c) ==
    IF c \in {"ETH", "BSC", "MATIC", "ARB", "OP"} /\ startswith(a, <<"0", "x">>)
    THEN SubSeq(a, 3, Len(a))
    ELSE a

\* check_address_pattern on the arguments held in the variables: "True",
\* "False", or "ValueError" when it raises.
check_address_pattern ==
    LET search_address == IF ignore_case
                          THEN lower(strip_0x(address, currency))
                          ELSE strip_0x(address, currency)
        check_pattern == IF ignore_case THEN lower(pattern) ELSE pattern
    IN CASE pattern_type = "prefix" ->
              IF startswith(search_address, check_pattern)
              THEN "True" ELSE "False"
         [] pattern_type = "suffix" ->
              IF endswith(search_address, check_pattern)
              THEN "True" ELSE "False"
         [] OTHER -> "ValueError"

MatchReady ==
    /\ address \in Strings(MaxAddressLen)
    /\ currency \in Currencies
    /\ pattern \in Strings(MaxPatternLen)
    /\ pattern_type \in PatternTypes
    /\ ignore_case \in BOOLEAN
    /\ matched = "none"
    /\ attempt = "none"
    /\ mpc = "ready"

\* A call of check_address_pattern.
CheckAddressPattern ==
    /\ mpc = "ready"
    /\ matched' = check_address_pattern
    /\ mpc' = "checked"
    /\ UNCHANGED <<address, currency, pattern, pattern_type, ignore_case,
                   attempt>>
    /\ UNCHANGED <<mcvars, bvars, szvars, dfvars, cdvars, rcvars, dtvars, bxvars, flvars, lcvars, fsvars, skvars, wbvars, dpvars, xbvars, bfvars>>

\* One iteration of the for loop of HighPerformanceWorker.work_batch on a
\* key with this address: a match is appended to results; an exception of
\* check_pattern_fast is caught by `except Exception: continue`.
WorkBatchAttempt ==
    /\ mpc = "ready"
    /\ attempt' = CASE check_address_pattern = "True" -> "found"
                    [] check_address_pattern = "False" -> "no match"
                    [] OTHER -> "continue"
    /\ mpc' = "attempted"
    /\ UNCHANGED <<address, currency, pattern, pattern_type, ignore_case,
                   matched>>
    /\ UNCHANGED <<mcvars, bvars, szvars, dfvars, cdvars, rcvars, dtvars, bxvars, flvars, lcvars, fsvars, skvars, wbvars, dpvars, xbvars, bfvars>>

\* One iteration of the while loop of _worker_process and of
\* _worker_process_memory_optimized: an exception is printed and the loop
\* left by break, and the worker returns what it has found.
BatchWorkerAttempt ==
    /\ mpc = "ready"
    /\ attempt' = CASE check_address_pattern = "True" -> "found"
                    [] check_address_pattern = "False" -> "no match"
                    [] OTHER -> "break"
    /\ mpc' = "attempted"
    /\ UNCHANGED <<address, currency, pattern, pattern_type, ignore_case,
                   matched>>
    /\ UNCHANGED <<mcvars, bvars, szvars, dfvars, cdvars, rcvars, dtvars, bxvars, flvars, lcvars, fsvars, skvars, wbvars, dpvars, xbvars, bfvars>>

MatchInit ==
    /\ EnginesIdle
    /\ SizingIdle
    /\ MatchReady
    /\ DifficultyIdle
    /\ CodecIdle
    /\ RecordIdle
    /\ DeriveIdle
    /\ CollectIdle
    /\ Base58Idle
    /\ LoadIdle
    /\ OutputIdle
    /\ StopIdle
    /\ WorkerBatchIdle
    /\ DispatchIdle
    /\ ScheduleIdle
    /\ BufferIdle

MatchSpec == MatchInit /\ [][CheckAddressPattern]_vars

WorkerAttempt ==
    \/ CheckAddressPattern
    \/ WorkBatchAttempt
    \/ BatchWorkerAttempt

WorkerAttemptSpec == MatchInit /\ [][WorkerAttempt]_vars

\* The address as compared: without its 0x for the five EVM currencies.
Compared ==
    IF currency \in {"ETH", "BSC", "MATIC", "ARB", "OP"}
       /\ Len(address) >= 2 /\ address[1] = "0" /\ address[2] = "x"
    THEN Tail(Tail(address))
    ELSE address

\* Two characters are the same, up to case when ignore_case is true.
SameChar(c, d) ==
    \/ c = d
    \/ ignore_case /\ {c, d} = {"a", "A"}

\* C16: for pattern_type prefix (suffix), check_address_pattern returns true
\* exactly when the compared address starts (ends) with the pattern,
\* character by character, up to case when ignore_case is true.
C16_MatchIsPrefixOrSuffix ==
    (mpc = "checked" /\ pattern_type \in {"prefix", "suffix"}) =>
        LET a == Compared
            n == Len(a)
            k == Len(pattern)
        IN (matched = "True") <=>
             /\ k <= n
             /\ \A i \in 1 .. k :
                  IF pattern_type = "prefix"
                  THEN SameChar(a[i], pattern[i])
                  ELSE SameChar(a[n - k + i], pattern[i])

\* The spec's example: ETH, an address starting 0xA, pattern a as prefix,
\* ignoring case.
C16_Witness ==
    /\ mpc = "checked"
    /\ currency = "ETH"
    /\ address = <<"0", "x", "A">>
    /\ pattern = <<"a">>
    /\ pattern_type = "prefix"
    /\ ignore_case
    /\ matched = "True"

\* C17: with a pattern_type that is neither prefix nor suffix the matcher
\* raises, and a worker's loop iteration ends by raising the error to its
\* caller rather than going on or returning normally.
C17_UnknownTypeFailsFast ==
    pattern_type \notin {"prefix", "suffix"} =>
        /\ mpc = "checked" => matched = "ValueError"
        /\ mpc = "attempted" => attempt = "raise"

\* ------------------------------------------------ the difficulty estimator
\* Python integers are unbounded.  A non-negative integer is the sequence of
\* its base-10000 digits, the least significant first, without leading
\* zeros (zero is the empty sequence).
RECURSIVE MulCarry(_, _, _)
MulCarry(n, k, carry) ==
    IF n = <<>>
    THEN IF carry = 0 THEN <<>>
         ELSE <<carry % 10000>> \o MulCarry(<<>>, k, carry \div 10000)
    ELSE LET t == Head(n) * k + carry
         IN <<t % 10000>> \o MulCarry(Tail(n), k, t \div 10000)

\* a ** n
RECURSIVE Power(_, _)
Power(a, n) == IF n = 0 THEN <<1>> ELSE MulCarry(Power(a, n - 1), a, 0)

\* a <= b
LessEq(a, b) ==
    IF Len(a) # Len(b) THEN Len(a) < Len(b)
    ELSE LET D == {i \in 1 .. Len(a) : a[i] # b[i]}
         IN D = {} \/ LET top == CHOOSE i \in D : \A j \in D : j <= i
                      IN a[top] < b[top]

\* The alphabets table of estimate_pattern_difficulty.
alphabets ==
    [c \in Currencies |->
        IF c \in {"ETH", "BSC", "MATIC", "ARB", "OP"} THEN 16 ELSE 58]

\* A variant of alphabet_size that takes Base58 for every currency.
alphabet_size_base58(c) == 58

\* alphabets.get(currency, 58)
alphabet_size(c) == IF c \in DOMAIN alphabets THEN alphabets[c] ELSE 58

\* probability = alphabet_size ** pattern_length
probability_of(c, n) == Power(alphabet_size(c), n)

\* The if/elif chain of lines 76-93.
level_of(p) ==
    IF LessEq(p, Power(10, 2)) THEN Levels[1]
    ELSE IF LessEq(p, Power(10, 4)) THEN Levels[2]
    ELSE IF LessEq(p, Power(10, 6)) THEN Levels[3]
    ELSE IF LessEq(p, Power(10, 8)) THEN Levels[4]
    ELSE IF LessEq(p, Power(10, 10)) THEN Levels[5]
    ELSE Levels[6]

\* "XRP" stands for a currency the alphabets table does not hold.
DifficultyReady ==
    /\ dcurrency \in Currencies \cup {"XRP"}
    /\ pattern_length \in 0 .. MaxPatternLength
    /\ level = "none"
    /\ probability = <<>>
    /\ dpc = "ready"

\* A call of estimate_pattern_difficulty (the time estimate, a float used
\* for display, is left out).
EstimatePatternDifficulty ==
    /\ dpc = "ready"
    /\ probability' = probability_of(dcurrency, pattern_length)
    /\ level' = level_of(probability')
    /\ dpc' = "done"
    /\ UNCHANGED <<dcurrency, pattern_length>>
    /\ UNCHANGED <<mcvars, bvars, szvars, mtvars, cdvars, rcvars, dtvars, bxvars, flvars, lcvars, fsvars, skvars, wbvars, dpvars, xbvars, bfvars>>

\* The next call, on a pattern one character longer, same currency.
EstimateLongerPattern ==
    /\ dpc = "done"
    /\ pattern_length < MaxPatternLength
    /\ pattern_length' = pattern_length + 1
    /\ probability' = probability_of(dcurrency, pattern_length')
    /\ level' = level_of(probability')
    /\ UNCHANGED <<dcurrency, dpc>>
    /\ UNCHANGED <<mcvars, bvars, szvars, mtvars, cdvars, rcvars, dtvars, bxvars, flvars, lcvars, fsvars, skvars, wbvars, dpvars, xbvars, bfvars>>

Difficulty ==
    \/ EstimatePatternDifficulty
    \/ EstimateLongerPattern

DifficultyInit ==
    /\ EnginesIdle
    /\ SizingIdle
    /\ MatchIdle
    /\ DifficultyReady
    /\ CodecIdle
    /\ RecordIdle
    /\ DeriveIdle
    /\ CollectIdle
    /\ Base58Idle
    /\ LoadIdle
    /\ OutputIdle
    /\ StopIdle
    /\ WorkerBatchIdle
    /\ DispatchIdle
    /\ ScheduleIdle
    /\ BufferIdle

DifficultySpec == DifficultyInit /\ [][Difficulty]_vars

TierIndex(l) == CHOOSE i \in 1 .. Len(Levels) : Levels[i] = l

\* C18: for a supported currency the probability is 58 (BTC, LTC, DOGE,
\* TRX) or 16 (ETH, BSC, MATIC, ARB, OP) to the power of the pattern's
\* length; the tier is the number of thresholds 10^2 .. 10^10 the
\* probability exceeds; and a longer pattern never gets a lower tier.
C18_ProbabilityAndTier ==
    /\ [](( dpc = "done" /\ dcurrency \in Currencies ) =>
            /\ probability =
                 Power(IF dcurrency \in {"BTC", "LTC", "DOGE", "TRX"}
                       THEN 58 ELSE 16, pattern_length)
            /\ TierIndex(level) =
                 1 + Cardinality({k \in {2, 4, 6, 8, 10} :
                                    ~LessEq(probability, Power(10, k))}))
    /\ [][( dpc = "done" /\ dpc' = "done" /\ dcurrency \in Currencies )
            => TierIndex(level') >= TierIndex(level)]_vars

\* The spec's example: pattern "ab" for BTC has probability 58^2 = 3364.
C18_Witness ==
    /\ dpc = "done"
    /\ dcurrency = "BTC"
    /\ pattern_length = 2
    /\ probability = <<3364>>
    /\ level = "Legko"

\* ------------------------------------------------------ the codecs' keys
\* A 32-byte string is a sequence of 16 words of 16 bits, the first bytes
\* first (int.from_bytes(..., 'big')).
key_bytes == 32
Words == 1 .. (key_bytes \div 2)

\* a < b as integers
Less(a, b) ==
    \E i \in Words : a[i] < b[i] /\ \A j \in 1 .. (i - 1) : a[j] = b[j]

\* words 1..i of a - b (a >= b)
RECURSIVE SubWords(_, _, _, _)
SubWords(a, b, i, borrow) ==
    IF i = 0 THEN <<>>
    ELSE LET d == a[i] - b[i] - borrow
         IN SubWords(a, b, i - 1, IF d < 0 THEN 1 ELSE 0)
              \o <<IF d < 0 THEN d + 65536 ELSE d>>

\* words 1..i of a + carry
RECURSIVE AddWords(_, _, _)
AddWords(a, i, carry) ==
    IF i = 0 THEN <<>>
    ELSE LET t == a[i] + carry
         IN AddWords(a, i - 1, t \div 65536) \o <<t % 65536>>

\* a % m
RECURSIVE Mod(_, _)
Mod(a, m) == IF Less(a, m) THEN a ELSE Mod(SubWords(a, m, Len(a), 0), m)

\* 0xFFFFFFFFFFFFFFFFFFFFFFFFFFFFFFFEBAAEDCE6AF48A03BBFD25E8CD0364141
secp256k1_order ==
    <<65535, 65535, 65535, 65535, 65535, 65535, 65535, 65534,
      47790, 56550, 44872, 41019, 49106, 24204, 53302, 16705>>

Zero == [i \in Words |-> 0]
One == [Zero EXCEPT ![Len(Zero)] = 1]

\* The values the random source returns: 0, 1, a value whose first byte is
\* zero, 2^255, order - 1, order, order + 1 and 2^256 - 1.
Keys ==
    { Zero,
      One,
      [i \in Words |-> IF i = 1 THEN 255 ELSE 65535],
      [i \in Words |-> IF i = 1 THEN 32768 ELSE 0],
      SubWords(secp256k1_order, One, Len(One), 0),
      secp256k1_order,
      AddWords(secp256k1_order, Len(One), 1),
      [i \in Words |-> 65535] }

Codecs ==
    {"OptimizedTronNetwork", "OptimizedBitcoinNetwork",
     "OptimizedEthereumNetwork", "TronNetwork", "BitcoinLikeNetwork"}

\* secp256k1.PrivateKey(private_key_bytes) raises unless 0 < key < order.
seckey_valid(k) == k # Zero /\ Less(k, secp256k1_order)

\* _optimized_private_key_to_address: the library's public key, or the
\* SHA-256 stand-in when the library is missing or rejects the key.
optimized_pubkey(k) ==
    IF secp256k1_available /\ seckey_valid(k) THEN "secp256k1" ELSE "fallback"

\* _fast_keccak256 of the optimized Tron and Ethereum codecs.
fast_keccak256 ==
    IF keccak_available THEN "keccak256"
    ELSE IF sha3_available THEN "sha3_256"
    ELSE "sha256"

\* TronNetwork._keccak256: "error" is the AttributeError of a hashlib
\* without sha3_256.
keccak256 ==
    IF keccak_available THEN "keccak256"
    ELSE IF sha3_available THEN "sha3_256"
    ELSE "error"

CodecReady ==
    /\ codec \in Codecs
    /\ private_key_bytes \in Keys
    /\ secp256k1_available \in BOOLEAN
    /\ keccak_available \in BOOLEAN
    /\ sha3_available \in BOOLEAN
    /\ pubkey = "none"
    /\ hash_used = "none"
    /\ cpc = "ready"

\* OptimizedTronNetwork.generate
OptimizedTronGenerate ==
    /\ cpc = "ready"
    /\ codec = "OptimizedTronNetwork"
    /\ private_key_bytes' =
         IF ~Less(private_key_bytes, secp256k1_order)
         THEN AddWords(Mod(private_key_bytes,
                           SubWords(secp256k1_order, One, Len(One), 0)),
                       Len(One), 1)
         ELSE private_key_bytes
    /\ pubkey' = optimized_pubkey(private_key_bytes')
    /\ hash_used' = fast_keccak256
    /\ cpc' = "generated"
    /\ UNCHANGED <<codec, secp256k1_available, keccak_available,
                   sha3_available>>
    /\ UNCHANGED <<mcvars, bvars, szvars, mtvars, dfvars, rcvars, dtvars, bxvars, flvars, lcvars, fsvars, skvars, wbvars, dpvars, xbvars, bfvars>>

\* OptimizedBitcoinNetwork.generate
OptimizedBitcoinGenerate ==
    /\ cpc = "ready"
    /\ codec = "OptimizedBitcoinNetwork"
    /\ private_key_bytes' =
         IF private_key_bytes[1] \div 256 = 0
         THEN [private_key_bytes EXCEPT ![1] = 256 + (@ % 256)]
         ELSE private_key_bytes
    /\ pubkey' = optimized_pubkey(private_key_bytes')
    /\ hash_used' = "ripemd160_sha256"
    /\ cpc' = "generated"
    /\ UNCHANGED <<codec, secp256k1_available, keccak_available,
                   sha3_available>>
    /\ UNCHANGED <<mcvars, bvars, szvars, mtvars, dfvars, rcvars, dtvars, bxvars, flvars, lcvars, fsvars, skvars, wbvars, dpvars, xbvars, bfvars>>

\* OptimizedEthereumNetwork.generate
OptimizedEthereumGenerate ==
    /\ cpc = "ready"
    /\ codec = "OptimizedEthereumNetwork"
    /\ pubkey' = optimized_pubkey(private_key_bytes)
    /\ hash_used' = fast_keccak256
    /\ cpc' = "generated"
    /\ UNCHANGED <<codec, private_key_bytes, secp256k1_available,
                   keccak_available, sha3_available>>
    /\ UNCHANGED <<mcvars, bvars, szvars, mtvars, dfvars, rcvars, dtvars, bxvars, flvars, lcvars, fsvars, skvars, wbvars, dpvars, xbvars, bfvars>>

\* The loop `while int.from_bytes(private_key_bytes, 'big') >= order:
\* private_key_bytes = os.urandom(32)`: the first draw if it is below the
\* order, else a later draw that is.
Resampled(k) ==
    IF Less(private_key_bytes, secp256k1_order)
    THEN k = private_key_bytes
    ELSE Less(k, secp256k1_order)

\* TronNetwork.generate
TronGenerate ==
    /\ cpc = "ready"
    /\ codec = "TronNetwork"
    /\ \E k \in Keys :
        /\ Resampled(k)
        /\ private_key_bytes' = k
        /\ IF ~secp256k1_available \/ ~seckey_valid(k)
           THEN pubkey' = "none" /\ hash_used' = "none" /\ cpc' = "error"
           ELSE /\ pubkey' = "secp256k1"
                /\ IF keccak256 = "error"
                   THEN hash_used' = "none" /\ cpc' = "error"
                   ELSE hash_used' = keccak256 /\ cpc' = "generated"
    /\ UNCHANGED <<codec, secp256k1_available, keccak_available,
                   sha3_available>>
    /\ UNCHANGED <<mcvars, bvars, szvars, mtvars, dfvars, rcvars, dtvars, bxvars, flvars, lcvars, fsvars, skvars, wbvars, dpvars, xbvars, bfvars>>

\* BitcoinLikeNetwork.generate
BitcoinLikeGenerate ==
    /\ cpc = "ready"
    /\ codec = "BitcoinLikeNetwork"
    /\ \E k \in Keys :
        /\ Resampled(k)
        /\ private_key_bytes' = k
        /\ IF ~secp256k1_available \/ ~seckey_valid(k)
           THEN pubkey' = "none" /\ hash_used' = "none" /\ cpc' = "error"
           ELSE /\ pubkey' = "secp256k1"
                /\ hash_used' = "ripemd160_sha256"
                /\ cpc' = "generated"
    /\ UNCHANGED <<codec, secp256k1_available, keccak_available,
                   sha3_available>>
    /\ UNCHANGED <<mcvars, bvars, szvars, mtvars, dfvars, rcvars, dtvars, bxvars, flvars, lcvars, fsvars, skvars, wbvars, dpvars, xbvars, bfvars>>

Codec ==
    \/ OptimizedTronGenerate
    \/ OptimizedBitcoinGenerate
    \/ OptimizedEthereumGenerate
    \/ TronGenerate
    \/ BitcoinLikeGenerate

CodecInit ==
    /\ EnginesIdle
    /\ SizingIdle
    /\ MatchIdle
    /\ DifficultyIdle
    /\ CodecReady
    /\ RecordIdle
    /\ DeriveIdle
    /\ CollectIdle
    /\ Base58Idle
    /\ LoadIdle
    /\ OutputIdle
    /\ StopIdle
    /\ WorkerBatchIdle
    /\ DispatchIdle
    /\ ScheduleIdle
    /\ BufferIdle

CodecSpec == CodecInit /\ [][Codec]_vars

\* C19: a private key an address was derived from is above zero and below
\* the secp256k1 group order, whatever 256-bit value the random source
\* returned.
C19_KeyInRange ==
    cpc = "generated" =>
        /\ \E i \in Words : private_key_bytes[i] # 0
        /\ Less(private_key_bytes, secp256k1_order)

\* C20: a Tron or EVM codec hashes the public key with Keccak-256 only;
\* without the Keccak-256 primitive generate() ends in an error and no
\* address is produced.
C20_KeccakOrError ==
    codec \in {"OptimizedTronNetwork", "OptimizedEthereumNetwork",
               "TronNetwork"} =>
        /\ cpc = "generated" => hash_used = "keccak256"
        /\ (cpc \in {"generated", "error"} /\ ~keccak_available)
              => cpc = "error"

\* ------------------------------------- from generate() to a key record
\* The currencies whose optimized class is defined in networks/optimized.py.
EngineCurrencies == {"BTC", "LTC", "DOGE", "ETH", "TRX"}

\* The class of the network bound to a currency, in _init_network of the
\* worker and in the networks table of the batch engine.
network_class(c) ==
    CASE c \in {"BTC", "LTC", "DOGE"} -> "OptimizedBitcoinNetwork"
      [] c = "ETH" -> "OptimizedEthereumNetwork"
      [] OTHER -> "OptimizedTronNetwork"

\* A variant of network_currency in which every network is an EVM one.
network_currency_evm(e, c) == "ETH"

\* self.currency of that network: the worker builds
\* OptimizedBitcoinNetwork('BTC' / 'LTC' / 'DOGE'), the batch engine
\* OptimizedBitcoinNetwork() three times, whose currency defaults to "BTC".
network_currency(e, c) ==
    IF c \in {"BTC", "LTC", "DOGE"} /\ e = "batch" THEN "BTC" ELSE c

\* address_versions of OptimizedBitcoinNetwork, each byte in hexadecimal.
address_versions ==
    [c \in {"BTC", "LTC", "DOGE"} |->
        CASE c = "BTC" -> "00" [] c = "LTC" -> "30" [] c = "DOGE" -> "1e"]

\* What precedes the hash in an address: the version byte
\* address_versions.get(currency, b'\x00'), tron_prefix 0x41, or "0x".
address_prefix(cls, nc) ==
    CASE cls = "OptimizedBitcoinNetwork" ->
            IF nc \in DOMAIN address_versions THEN address_versions[nc]
            ELSE "00"
      [] cls = "OptimizedTronNetwork" -> "41"
      [] OTHER -> "0x"

\* The bytes generate() encodes as private_key: private_key_bytes as it is
\* after the range correction.
stored_key(drawn, corrected) == corrected

\* The GeneratedKey that generate() returns.  An address is the data it is
\* computed from: prefix, origin of the public key, hash and key; the
\* private key is private_key_bytes.hex().
GeneratedKey ==
    [address |-> [prefix |-> address_prefix(codec,
                                 network_currency(engine, task_currency)),
                  pubkey |-> pubkey,
                  hash |-> hash_used,
                  key |-> private_key_bytes],
     private_key |-> [format |-> "hex",
                      key |-> stored_key(sampled, private_key_bytes)],
     currency |-> network_currency(engine, task_currency)]

RecordReady ==
    /\ engine \in {"max_core", "batch"}
    /\ task_currency \in EngineCurrencies
    /\ CodecReady
    /\ codec = network_class(task_currency)
    /\ sampled = private_key_bytes
    /\ key_record = "none"
    /\ rpc = "ready"

\* The rest of an iteration of work_batch, after generate(): on a match the
\* OptimizedKey takes the key's address and private key and the worker's
\* own currency.
WorkBatchRecord ==
    /\ engine = "max_core"
    /\ cpc = "generated"
    /\ rpc = "ready"
    /\ \/ /\ key_record' = [address |-> GeneratedKey.address,
                            private_key |-> GeneratedKey.private_key,
                            currency |-> task_currency]
          /\ rpc' = "emitted"
       \/ /\ key_record' = key_record
          /\ rpc' = "no match"
    /\ UNCHANGED <<engine, task_currency, sampled>>
    /\ UNCHANGED <<mcvars, bvars, szvars, mtvars, dfvars, cdvars, dtvars, bxvars, flvars, lcvars, fsvars, skvars, wbvars, dpvars, xbvars, bfvars>>

\* The rest of an iteration of _worker_process and of
\* _worker_process_memory_optimized: the dict takes the key's currency.
BatchWorkerRecord ==
    /\ engine = "batch"
    /\ cpc = "generated"
    /\ rpc = "ready"
    /\ \/ /\ key_record' = [address |-> GeneratedKey.address,
                            private_key |-> GeneratedKey.private_key,
                            currency |-> GeneratedKey.currency]
          /\ rpc' = "emitted"
       \/ /\ key_record' = key_record
          /\ rpc' = "no match"
    /\ UNCHANGED <<engine, task_currency, sampled>>
    /\ UNCHANGED <<mcvars, bvars, szvars, mtvars, dfvars, cdvars, dtvars, bxvars, flvars, lcvars, fsvars, skvars, wbvars, dpvars, xbvars, bfvars>>

\* The row written for the record: save_results and the streaming path
\* write the record as it is, the simple path of the batch engine writes
\* task.currency in the Currency column.
PersistRecord ==
    /\ rpc = "emitted"
    /\ \/ key_record' = key_record
       \/ /\ engine = "batch"
          /\ key_record' = [key_record EXCEPT !.currency = task_currency]
    /\ rpc' = "persisted"
    /\ UNCHANGED <<engine, task_currency, sampled>>
    /\ UNCHANGED <<mcvars, bvars, szvars, mtvars, dfvars, cdvars, dtvars, bxvars, flvars, lcvars, fsvars, skvars, wbvars, dpvars, xbvars, bfvars>>

RecordStep ==
    \/ OptimizedTronGenerate
    \/ OptimizedBitcoinGenerate
    \/ OptimizedEthereumGenerate
    \/ WorkBatchRecord
    \/ BatchWorkerRecord
    \/ PersistRecord

RecordInit ==
    /\ EnginesIdle
    /\ SizingIdle
    /\ MatchIdle
    /\ DifficultyIdle
    /\ RecordReady
    /\ DeriveIdle
    /\ CollectIdle
    /\ Base58Idle
    /\ LoadIdle
    /\ OutputIdle
    /\ StopIdle
    /\ WorkerBatchIdle
    /\ DispatchIdle
    /\ ScheduleIdle
    /\ BufferIdle

RecordSpec == RecordInit /\ [][RecordStep]_vars

\* C21: a worker whose codec backend is missing or fails ends with an
\* error: its loop iteration does not complete normally, and no record it
\* emits comes from a substitute public-key derivation.
C21_BackendFailureEndsWorker ==
    /\ rpc \in {"emitted", "persisted"} =>
          key_record.address.pubkey = "secp256k1"
    /\ rpc \in {"emitted", "persisted", "no match"} =>
          (secp256k1_available /\ seckey_valid(private_key_bytes))

\* The address a record's currency stands for, given its stored private
\* key: the currency's own prefix, the secp256k1 public key of the stored
\* key, and the chain's hash.
Rederived(rec) ==
    [prefix |-> CASE rec.currency = "BTC" -> "00"
                  [] rec.currency = "LTC" -> "30"
                  [] rec.currency = "DOGE" -> "1e"
                  [] rec.currency = "TRX" -> "41"
                  [] OTHER -> "0x",
     pubkey |-> "secp256k1",
     hash |-> IF rec.currency \in {"BTC", "LTC", "DOGE"}
              THEN "ripemd160_sha256" ELSE "keccak256",
     key |-> rec.private_key.key]

\* C22: the address of a record a worker emitted or an engine wrote is the
\* one its currency's codec derives from the record's stored private key.
C22_AddressRederivable ==
    rpc \in {"emitted", "persisted"} =>
        Rederived(key_record) = key_record.address

\* C24: for BTC, LTC and DOGE the private key of a record is the WIF
\* encoding of the key.
C24_PrivateKeyIsWif ==
    (rpc \in {"emitted", "persisted"}
        /\ task_currency \in {"BTC", "LTC", "DOGE"}) =>
        key_record.private_key.format = "wif"

\* C25: a record of a task carries the task's currency, and for BTC, LTC
\* and DOGE its address is built on the currency's own P2PKH version byte
\* (0x00, 0x30, 0x1E).
C25_OwnVersionAndCurrency ==
    rpc \in {"emitted", "persisted"} =>
        /\ key_record.currency = task_currency
        /\ task_currency = "BTC" => key_record.address.prefix = "00"
        /\ task_currency = "LTC" => key_record.address.prefix = "30"
        /\ task_currency = "DOGE" => key_record.address.prefix = "1e"

\* ------------------------------------------- repeated derivation
\* len(data) <= 8: the Base58 caches hold and serve short data only.
cache_limit == 8

\* Length of the data of an address given to Base58: prefix, 20 bytes of
\* hash, 4 of checksum.
address_bytes == 25

\* The state of a codec instance: self._secp256k1_available, whether the
\* imports of _fast_keccak256 succeed, and self._base58_cache.
InstanceStates ==
    [secp256k1 : BOOLEAN, keccak : BOOLEAN, sha3 : BOOLEAN,
     cache : {"empty", "filled"}]

\* _optimized_private_key_to_address of the instance for currency c in
\* state st, with private_key=private_key_bytes.hex().
private_key_to_address(c, k, st) ==
    LET cls == network_class(c)
    IN [address |->
          [prefix |-> address_prefix(cls, c),
           pubkey |-> IF st.secp256k1 /\ seckey_valid(k)
                      THEN "secp256k1" ELSE "fallback",
           hash |-> IF cls = "OptimizedBitcoinNetwork"
                    THEN "ripemd160_sha256"
                    ELSE IF st.keccak THEN "keccak256"
                    ELSE IF st.sha3 THEN "sha3_256"
                    ELSE "sha256",
           base58 |-> IF cls # "OptimizedEthereumNetwork"
                         /\ address_bytes <= cache_limit
                         /\ st.cache = "filled"
                      THEN "cached" ELSE "encoded",
           key |-> k],
        private_key |-> [format |-> "hex", key |-> k]]

DeriveReady ==
    /\ scalar \in {k \in Keys : seckey_valid(k)}
    /\ instance_currency \in EngineCurrencies
    /\ instance = "none"
    /\ derived = <<>>

\* One derivation from the scalar, by an instance in some state.
Derive ==
    /\ instance_currency \in EngineCurrencies
    /\ Len(derived) < 2
    /\ \E st \in InstanceStates :
        /\ instance' = st
        /\ derived' = Append(derived,
                        private_key_to_address(instance_currency, scalar, st))
    /\ UNCHANGED <<scalar, instance_currency>>
    /\ UNCHANGED <<mcvars, bvars, szvars, mtvars, dfvars, cdvars, rcvars, bxvars, flvars, lcvars, fsvars, skvars, wbvars, dpvars, xbvars, bfvars>>

DeriveInit ==
    /\ EnginesIdle
    /\ SizingIdle
    /\ MatchIdle
    /\ DifficultyIdle
    /\ CodecIdle
    /\ RecordIdle
    /\ DeriveReady
    /\ CollectIdle
    /\ Base58Idle
    /\ LoadIdle
    /\ OutputIdle
    /\ StopIdle
    /\ WorkerBatchIdle
    /\ DispatchIdle
    /\ ScheduleIdle
    /\ BufferIdle

DeriveSpec == DeriveInit /\ [][Derive]_vars

\* C23: two derivations from the same valid scalar by the same codec give
\* the same address and encoded key, whatever the state of the instance.
C23_DerivationDeterministic ==
    Len(derived) = 2 => derived[1] = derived[2]

\* ---------------------------------------------------------- Base58Check
\* A byte string is a sequence of numbers 0..255, a string a sequence of
\* characters.
base58_alphabet ==
    <<"1", "2", "3", "4", "5", "6", "7", "8", "9", "A", "B", "C",
      "D", "E", "F", "G", "H", "J", "K", "L", "M", "N", "P", "Q",
      "R", "S", "T", "U", "V", "W", "X", "Y", "Z", "a", "b", "c",
      "d", "e", "f", "g", "h", "i", "j", "k", "m", "n", "o", "p",
      "q", "r", "s", "t", "u", "v", "w", "x", "y", "z">>

\* Length of a RIPEMD-160 digest and of keccak_hash[-20:].
hash_bytes == 20

\* digest()[:4]
checksum_bytes == 4

Repeat(c, n) == [i \in 1 .. n |-> c]

\* int.from_bytes(data[1..i], 'big') % 58
RECURSIVE RemPrefix(_, _)
RemPrefix(data, i) ==
    IF i = 0 THEN 0 ELSE (RemPrefix(data, i - 1) * 256 + data[i]) % 58

\* divmod(num, 58) by long division: the quotient, on as many bytes as
\* num, and the remainder.
Quot58(data) ==
    [i \in 1 .. Len(data) |-> (RemPrefix(data, i - 1) * 256 + data[i]) \div 58]

Rem58(data) == RemPrefix(data, Len(data))

\* A variant of leading_zeros that counts none.
leading_zeros_none(data) == 0

\* The loop that counts the zero bytes at the head of data.
leading_zeros(data) ==
    Cardinality({i \in 1 .. Len(data) : \A j \in 1 .. i : data[j] = 0})

\* What the cache holds for data, or <<>> when it holds nothing.
Cached(data) ==
    IF \E pair \in base58_cache : pair[1] = data
    THEN (CHOOSE pair \in base58_cache : pair[1] = data)[2]
    ELSE <<>>

\* Stands for hashlib.sha256(hashlib.sha256(data).digest()).digest()[:4]:
\* a fixed function of the data with checksum_bytes bytes.
RECURSIVE WeightedSum(_, _, _)
WeightedSum(data, i, j) ==
    IF i > Len(data) THEN 0
    ELSE (i * j + 7) * data[i] + WeightedSum(data, i + 1, j)

checksum(data) ==
    [j \in 1 .. checksum_bytes |-> (WeightedSum(data, 1, j) + j) % 256]

\* Bytes that follow the zero bytes of a hash or key.
Fill(f, n) == [i \in 1 .. n |-> (f + 37 * i) % 256]

\* What the codecs encode.  An address payload is a version byte (0x00,
\* 0x30, 0x1E or Tron's 0x41) and a 20-byte hash; a WIF payload is the WIF
\* version byte (0x80, 0xB0, 0x9E), the 32-byte key and 0x01.
AddressPayloads(versions) ==
    {<<v>> \o Repeat(0, z) \o Fill(f, hash_bytes - z) :
        v \in versions, z \in 0 .. MaxLeadingZeros, f \in {1, 58, 255}}

WifPayloads ==
    {<<v>> \o Repeat(0, z) \o Fill(f, key_bytes - z) \o <<1>> :
        v \in {128, 176, 158}, z \in 0 .. MaxLeadingZeros, f \in {1, 58, 255}}

Base58Ready ==
    /\ encoder \in {"fast_base58_encode", "ultra_fast_base58", "b58encode"}
    /\ payload \in
         CASE encoder = "fast_base58_encode" -> AddressPayloads({0, 48, 30})
           [] encoder = "ultra_fast_base58" -> AddressPayloads({65})
           [] OTHER -> AddressPayloads({0, 48, 30, 65}) \cup WifPayloads
    /\ base58_cache = {}
    /\ num = <<>>
    /\ encoded = <<>>
    /\ produced = <<>>
    /\ epc = "ready"

\* The checksum is appended and the encoder called on the whole: the
\* optimized encoders return what their cache holds for data of at most 8
\* bytes; otherwise num = int.from_bytes(data, 'big') and encoded = "".
Base58Start ==
    /\ epc = "ready"
    /\ LET data == payload \o checksum(payload)
       IN IF encoder # "b58encode" /\ Len(data) <= cache_limit
             /\ Cached(data) # <<>>
          THEN /\ produced' = Cached(data)
               /\ epc' = "done"
               /\ UNCHANGED <<num, encoded>>
          ELSE /\ num' = data
               /\ encoded' = <<>>
               /\ epc' = "loop"
               /\ UNCHANGED produced
    /\ UNCHANGED <<payload, encoder, base58_cache>>
    /\ UNCHANGED <<mcvars, bvars, szvars, mtvars, dfvars, cdvars, rcvars, dtvars, flvars, lcvars, fsvars, skvars, wbvars, dpvars, xbvars, bfvars>>

\* while num > 0: num, remainder = divmod(num, 58);
\*                encoded = base58_alphabet[remainder] + encoded
DivmodStep ==
    /\ epc = "loop"
    /\ \E i \in 1 .. Len(num) : num[i] # 0
    /\ num' = Quot58(num)
    /\ encoded' = <<base58_alphabet[Rem58(num) + 1]>> \o encoded
    /\ UNCHANGED <<payload, encoder, base58_cache, produced, epc>>
    /\ UNCHANGED <<mcvars, bvars, szvars, mtvars, dfvars, cdvars, rcvars, dtvars, flvars, lcvars, fsvars, skvars, wbvars, dpvars, xbvars, bfvars>>

\* After the loop: base58_alphabet[0] * leading_zeros + encoded
\* (_ultra_fast_base58 returns base58_alphabet[0] * len(data) for data
\* that is all zeros); the optimized encoders store the result for data of
\* at most 8 bytes.
Base58Return ==
    /\ epc = "loop"
    /\ \A i \in 1 .. Len(num) : num[i] = 0
    /\ LET data == payload \o checksum(payload)
       IN /\ produced' =
               IF encoder = "ultra_fast_base58"
                  /\ leading_zeros(data) = Len(data)
               THEN [i \in 1 .. Len(data) |-> base58_alphabet[1]]
               ELSE [i \in 1 .. leading_zeros(data) |-> base58_alphabet[1]]
                      \o encoded
          /\ base58_cache' =
               IF encoder # "b58encode" /\ Len(data) <= cache_limit
               THEN base58_cache \cup {<<data, produced'>>}
               ELSE base58_cache
    /\ epc' = "done"
    /\ UNCHANGED <<payload, encoder, num, encoded>>
    /\ UNCHANGED <<mcvars, bvars, szvars, mtvars, dfvars, cdvars, rcvars, dtvars, flvars, lcvars, fsvars, skvars, wbvars, dpvars, xbvars, bfvars>>

Base58Check ==
    \/ Base58Start
    \/ Base58Return
    \/ DivmodStep

Base58Init ==
    /\ EnginesIdle
    /\ SizingIdle
    /\ MatchIdle
    /\ DifficultyIdle
    /\ CodecIdle
    /\ RecordIdle
    /\ DeriveIdle
    /\ CollectIdle
    /\ Base58Ready
    /\ LoadIdle
    /\ OutputIdle
    /\ StopIdle
    /\ WorkerBatchIdle
    /\ DispatchIdle
    /\ ScheduleIdle
    /\ BufferIdle

Base58Spec == Base58Init /\ [][Base58Check]_vars

\* Base58 decoding: the number the characters spell in base 58, as bytes,
\* behind one zero byte for every leading "1".
RECURSIVE MulAdd256(_, _, _)
MulAdd256(n, k, carry) ==
    IF n = <<>>
    THEN IF carry = 0 THEN <<>>
         ELSE <<carry % 256>> \o MulAdd256(<<>>, k, carry \div 256)
    ELSE LET t == Head(n) * k + carry
         IN <<t % 256>> \o MulAdd256(Tail(n), k, t \div 256)

RECURSIVE FromBase58(_, _)
FromBase58(str, acc) ==
    IF str = <<>> THEN acc
    ELSE FromBase58(Tail(str),
           MulAdd256(acc, 58,
             (CHOOSE i \in 1 .. Len(base58_alphabet) :
                 base58_alphabet[i] = Head(str)) - 1))

RECURSIVE LeadingOnes(_)
LeadingOnes(str) ==
    IF str # <<>> /\ Head(str) = "1" THEN 1 + LeadingOnes(Tail(str)) ELSE 0

b58decode(str) ==
    LET n == FromBase58(str, <<>>)
    IN Repeat(0, LeadingOnes(str)) \o [i \in 1 .. Len(n) |-> n[Len(n) + 1 - i]]

\* C26: a produced address or WIF string decodes to bytes whose last four
\* are the checksum of all the bytes before them (and these are the
\* payload that was encoded, leading zero bytes included).
C26_ChecksumRoundTrip ==
    epc = "done" =>
        LET raw == b58decode(produced)
            n == Len(raw) - checksum_bytes
        IN /\ n > 0
           /\ SubSeq(raw, n + 1, Len(raw)) = checksum(SubSeq(raw, 1, n))
           /\ SubSeq(raw, 1, n) = payload

\* A BTC address payload whose hash starts with a zero byte: the string
\* starts with two "1".
C26_Witness ==
    /\ epc = "done"
    /\ encoder = "fast_base58_encode"
    /\ payload[1] = 0
    /\ payload[2] = 0
    /\ payload[3] # 0
    /\ LeadingOnes(produced) = 2

\* ------------------------------------------- from the match to the file
\* A task of one of the currencies the engines have a codec for, at the
\* point where a worker holds a generated key: the worker of
\* MaxCoreVanityGenerator calls the matcher with its own currency, the
\* batch workers with the currency of the key.
CollectReady ==
    /\ attempt_engine \in {"max_core", "batch"}
    /\ attempt_task \in EngineCurrencies
    /\ address \in Strings(MaxAddressLen)
    /\ currency = network_currency(attempt_engine, attempt_task)
    /\ pattern \in Strings(MaxPatternLen)
    /\ pattern_type \in PatternTypes
    /\ ignore_case \in BOOLEAN
    /\ matched = "none"
    /\ attempt = "none"
    /\ mpc = "ready"
    /\ found = <<>>
    /\ written = <<>>

MaxCoreAttempt ==
    /\ attempt_engine = "max_core"
    /\ WorkBatchAttempt

BatchAttempt ==
    /\ attempt_engine = "batch"
    /\ BatchWorkerAttempt

\* The record of a match reaches the engine: found_addresses.append(result)
\* in _monitor_progress and _collect_final_results,
\* all_found_addresses.extend(worker_results) in the batch engine.
CollectFound ==
    /\ mpc = "attempted"
    /\ attempt = "found"
    /\ found' = Append(found, [address |-> address, currency |-> currency])
    /\ mpc' = "collected"
    /\ UNCHANGED <<address, currency, pattern, pattern_type, ignore_case,
                   matched, attempt>>
    /\ UNCHANGED <<attempt_engine, attempt_task, written>>
    /\ UNCHANGED <<mcvars, bvars, szvars, dfvars, cdvars, rcvars, dtvars, bxvars, lcvars, fsvars, skvars, wbvars, dpvars, xbvars, bfvars>>

\* The rows written from the collected records: save_results, the simple
\* path of _execute_single_task and the streaming writer.
WriteFound ==
    /\ mpc = "collected"
    /\ written' = found
    /\ mpc' = "written"
    /\ UNCHANGED <<address, currency, pattern, pattern_type, ignore_case,
                   matched, attempt>>
    /\ UNCHANGED <<attempt_engine, attempt_task, found>>
    /\ UNCHANGED <<mcvars, bvars, szvars, dfvars, cdvars, rcvars, dtvars, bxvars, lcvars, fsvars, skvars, wbvars, dpvars, xbvars, bfvars>>

Collect ==
    \/ MaxCoreAttempt
    \/ BatchAttempt
    \/ CollectFound
    \/ WriteFound

CollectInit ==
    /\ EnginesIdle
    /\ SizingIdle
    /\ DifficultyIdle
    /\ CodecIdle
    /\ RecordIdle
    /\ DeriveIdle
    /\ Base58Idle
    /\ CollectReady
    /\ LoadIdle
    /\ OutputIdle
    /\ StopIdle
    /\ WorkerBatchIdle
    /\ DispatchIdle
    /\ ScheduleIdle
    /\ BufferIdle

CollectSpec == CollectInit /\ [][Collect]_vars

\* The address as the task's currency has it compared: without its 0x for
\* the EVM currencies.
ComparedFor(a, c) ==
    IF c \in {"ETH", "BSC", "MATIC", "ARB", "OP"}
       /\ Len(a) >= 2 /\ a[1] = "0" /\ a[2] = "x"
    THEN Tail(Tail(a))
    ELSE a

\* The address a satisfies the task's pattern for the currency c.
Satisfies(a, c) ==
    LET b == ComparedFor(a, c)
        n == Len(b)
        k == Len(pattern)
    IN /\ pattern_type \in {"prefix", "suffix"}
       /\ k <= n
       /\ \A i \in 1 .. k :
            IF pattern_type = "prefix"
            THEN SameChar(b[i], pattern[i])
            ELSE SameChar(b[n - k + i], pattern[i])

\* C27: every record collected or written has an address that satisfies
\* the matcher for the currency, pattern, pattern_type and case of the
\* task it was produced for.
C27_CollectedAddressesMatch ==
    /\ \A i \in 1 .. Len(found) : Satisfies(found[i].address, attempt_task)
    /\ \A i \in 1 .. Len(written) : Satisfies(written[i].address, attempt_task)

\* A batch task for LTC, whose keys carry the currency BTC, with an address
\* that matches only up to case, collected and written.
C27_Witness ==
    /\ mpc = "written"
    /\ attempt_engine = "batch"
    /\ attempt_task = "LTC"
    /\ pattern_type = "suffix"
    /\ ignore_case
    /\ Len(written) = 1
    /\ written[1].address = <<"0", "x", "A">>
    /\ pattern = <<"x", "a">>

\* ------------------------------------------------------------ load_config
\* The keys of self.networks.
networks == {"BTC", "LTC", "DOGE", "ETH", "TRX", "BSC", "MATIC", "ARB", "OP"}

\* Rows as csv.reader yields them: an empty line is the empty list, and
\* every field is text.
SampleRows ==
    { <<>>,
      <<"# tasks">>,
      <<" #x", "prefix", "a">>,
      <<"BTC", "prefix", "1A", "1", "true", "3">>,
      <<"ltc", " Suffix ", "x", "2", "FALSE", "5">>,
      <<"ETH", "prefix", "a", "0", "true", "1">>,
      <<"BTC", "prefix", "1A", "1", "true">>,
      <<"BTC", "prefix", "1A", "1", "true", "3", "x">>,
      <<"XMR", "prefix", "a", "1", "true", "3">>,
      <<"BTC", "regex", "a", "1", "true", "3">>,
      <<"BTC", "prefix", "a", "1", "true", "0">>,
      <<"BTC", "prefix", "a", "1", "true", "6">>,
      <<"BTC", "prefix", "a", "ten", "true", "3">>,
      <<"BTC", "prefix", "a", "1", "true", "high">> }

\* str.strip()
field_strip(x) ==
    CASE x = " Suffix " -> "Suffix"
      [] x = " #x" -> "#x"
      [] OTHER -> x

\* str.upper()
field_upper(x) ==
    CASE x = "ltc" -> "LTC"
      [] x = "ten" -> "TEN"
      [] x = "high" -> "HIGH"
      [] x = "prefix" -> "PREFIX"
      [] x = "Suffix" -> "SUFFIX"
      [] x = "true" -> "TRUE"
      [] x = "a" -> "A"
      [] x = "x" -> "X"
      [] OTHER -> x

\* str.lower()
field_lower(x) ==
    CASE x = "Suffix" -> "suffix"
      [] x = "FALSE" -> "false"
      [] x = "BTC" -> "btc"
      [] x = "ETH" -> "eth"
      [] x = "XMR" -> "xmr"
      [] x = "1A" -> "1a"
      [] OTHER -> x

\* int(x): the decimal texts convert, every other text raises ValueError.
is_int(x) == x \in {"0", "1", "2", "3", "5", "6"}

to_int(x) ==
    CASE x = "0" -> 0 [] x = "1" -> 1 [] x = "2" -> 2
      [] x = "3" -> 3 [] x = "5" -> 5 [] x = "6" -> 6

\* A variant of priority_in_range without the upper limit.
priority_at_least_one(p) == p >= 1

\* Line 119: not (task.priority < 1 or task.priority > 5)
priority_in_range(p) == ~(p < 1 \/ p > 5)

\* What the body of the for loop appends for a row: nothing (continue) or
\* the task.
parse_row(row) ==
    IF row = <<>> \/ field_strip(row[1]) \in {"# tasks", "#x"}
    THEN <<>>
    ELSE IF Len(row) # 6 THEN <<>>
    ELSE LET f == [i \in 1 .. 6 |-> field_strip(row[i])]
         IN IF ~is_int(f[4]) \/ ~is_int(f[6]) THEN <<>>
            ELSE LET task_built ==
                       [currency |-> field_upper(f[1]),
                        pattern_type |-> field_lower(f[2]),
                        pattern |-> f[3],
                        count |-> to_int(f[4]),
                        ignore_case |-> field_lower(f[5]) = "true",
                        priority |-> to_int(f[6])]
                 IN IF task_built.currency \notin networks THEN <<>>
                    ELSE IF task_built.pattern_type \notin {"prefix", "suffix"}
                    THEN <<>>
                    ELSE IF ~priority_in_range(task_built.priority) THEN <<>>
                    ELSE <<task_built>>

\* A sort by priority that puts the later of two equal keys first.
sort_by_priority_unstable(ts) ==
    LET pos(i) == 1 + Cardinality({j \in 1 .. Len(ts) :
                        \/ ts[j].priority < ts[i].priority
                        \/ ts[j].priority = ts[i].priority /\ j > i})
    IN [k \in 1 .. Len(ts) |-> ts[CHOOSE i \in 1 .. Len(ts) : pos(i) = k]]

\* tasks.sort(key=lambda x: x.priority): a stable sort.
sort_by_priority(ts) ==
    LET pos(i) == 1 + Cardinality({j \in 1 .. Len(ts) :
                        \/ ts[j].priority < ts[i].priority
                        \/ ts[j].priority = ts[i].priority /\ j < i})
    IN [k \in 1 .. Len(ts) |-> ts[CHOOSE i \in 1 .. Len(ts) : pos(i) = k]]

LoadReady ==
    /\ config \in UNION {[1 .. n -> SampleRows] : n \in 0 .. MaxRows}
    /\ file_state \in {"readable", "missing", "unreadable"}
    /\ line_num = 0
    /\ tasks = <<>>
    /\ lpc = "reading"

\* One turn of the for loop over the reader.
ReadRow ==
    /\ lpc = "reading"
    /\ file_state # "missing"
    /\ line_num < Len(config)
    /\ line_num' = line_num + 1
    /\ tasks' = tasks \o parse_row(config[line_num + 1])
    /\ UNCHANGED <<config, file_state, lpc>>
    /\ UNCHANGED <<mcvars, bvars, szvars, mtvars, dfvars, cdvars, rcvars, dtvars, bxvars, flvars, fsvars, skvars, wbvars, dpvars, xbvars, bfvars>>

\* open() raises FileNotFoundError, or open() or the reader raises another
\* exception at some point of the file: return [].
ReadFails ==
    /\ lpc = "reading"
    /\ \/ file_state = "missing" /\ line_num = 0
       \/ file_state = "unreadable"
    /\ tasks' = <<>>
    /\ lpc' = "failed"
    /\ UNCHANGED <<config, file_state, line_num>>
    /\ UNCHANGED <<mcvars, bvars, szvars, mtvars, dfvars, cdvars, rcvars, dtvars, bxvars, flvars, fsvars, skvars, wbvars, dpvars, xbvars, bfvars>>

\* The reader is exhausted: the tasks are sorted and returned.
SortAndReturn ==
    /\ lpc = "reading"
    /\ file_state = "readable"
    /\ line_num = Len(config)
    /\ tasks' = sort_by_priority(tasks)
    /\ lpc' = "returned"
    /\ UNCHANGED <<config, file_state, line_num>>
    /\ UNCHANGED <<mcvars, bvars, szvars, mtvars, dfvars, cdvars, rcvars, dtvars, bxvars, flvars, fsvars, skvars, wbvars, dpvars, xbvars, bfvars>>

LoadConfig ==
    \/ ReadRow
    \/ ReadFails
    \/ SortAndReturn

LoadInit ==
    /\ EnginesIdle
    /\ SizingIdle
    /\ MatchIdle
    /\ DifficultyIdle
    /\ CodecIdle
    /\ RecordIdle
    /\ DeriveIdle
    /\ Base58Idle
    /\ CollectIdle
    /\ LoadReady
    /\ OutputIdle
    /\ StopIdle
    /\ WorkerBatchIdle
    /\ DispatchIdle
    /\ ScheduleIdle
    /\ BufferIdle

LoadSpec == LoadInit /\ [][LoadConfig]_vars

\* The task a well-formed row stands for; the other sample rows are empty,
\* comments or malformed.
ExpectedTask(row) ==
    CASE row = <<"BTC", "prefix", "1A", "1", "true", "3">> ->
           [currency |-> "BTC", pattern_type |-> "prefix", pattern |-> "1A",
            count |-> 1, ignore_case |-> TRUE, priority |-> 3]
      [] row = <<"ltc", " Suffix ", "x", "2", "FALSE", "5">> ->
           [currency |-> "LTC", pattern_type |-> "suffix", pattern |-> "x",
            count |-> 2, ignore_case |-> FALSE, priority |-> 5]
      [] row = <<"ETH", "prefix", "a", "0", "true", "1">> ->
           [currency |-> "ETH", pattern_type |-> "prefix", pattern |-> "a",
            count |-> 0, ignore_case |-> TRUE, priority |-> 1]
      [] OTHER ->
           [currency |-> "none", pattern_type |-> "none", pattern |-> "none",
            count |-> 0, ignore_case |-> FALSE, priority |-> 0]

Occurrences(seq, x) == Cardinality({i \in 1 .. Len(seq) : seq[i] = x})

\* C28: the tasks load_config returns from a file it could read are the
\* tasks of the well-formed rows of the file, each as many times as its row
\* occurs, and nothing else: empty lines, comments and malformed rows add
\* nothing, end nothing and remove nothing.
C28_ValidRowsReturned ==
    lpc = "returned" =>
        /\ \A row \in SampleRows :
             ExpectedTask(row).currency # "none" =>
                Occurrences(tasks, ExpectedTask(row)) = Occurrences(config, row)
        /\ \A i \in 1 .. Len(tasks) :
             /\ tasks[i].currency # "none"
             /\ \E row \in SampleRows : tasks[i] = ExpectedTask(row)

\* A row with a priority of 6 and a row of five fields before and between
\* two well-formed rows, both of which are returned.
C28_Witness ==
    /\ lpc = "returned"
    /\ Len(config) = 3
    /\ config[1] = <<"ltc", " Suffix ", "x", "2", "FALSE", "5">>
    /\ config[2] = <<"BTC", "prefix", "a", "1", "true", "6">>
    /\ config[3] = <<"BTC", "prefix", "1A", "1", "true", "3">>
    /\ Len(tasks) = 2
    /\ tasks[1].currency = "BTC"
    /\ tasks[2].currency = "LTC"

\* ------------------------------------------------------- the output files
\* {currency}_{pattern_type}_{pattern} of two tasks.
Stems == {"BTC_prefix_1A", "ETH_suffix_a"}

\* f"{stem}_{timestamp}.csv", f"{stem}_{timestamp}_{counter}.csv" when
\* counter is positive, and f"temp_{stem}_{timestamp}.csv".
FileName(stem, timestamp, counter, temp) ==
    [stem |-> stem, timestamp |-> timestamp, counter |-> counter, temp |-> temp]

\* Path.exists()
exists(name) == name \in DOMAIN files

\* open(name, 'w') and the rows written: the file is created or truncated.
Written(name, content) ==
    [n \in DOMAIN files \cup {name} |-> IF n = name THEN content ELSE files[n]]

\* counter = 1; while final_path.exists(): ...; counter += 1
final_path(stem) ==
    IF ~exists(FileName(stem, clock, 0, FALSE))
    THEN FileName(stem, clock, 0, FALSE)
    ELSE FileName(stem, clock,
                  CHOOSE k \in 1 .. MaxSaves + 1 :
                     /\ ~exists(FileName(stem, clock, k, FALSE))
                     /\ \A j \in 1 .. k - 1 :
                          exists(FileName(stem, clock, j, FALSE)),
                  FALSE)

OutputReady ==
    /\ files = <<>>
    /\ clock = 0
    /\ saves = 0
    /\ streaming = <<>>
    /\ fpc = "ready"

\* A second passes.
Tick ==
    /\ fpc = "ready"
    /\ clock < MaxClock
    /\ clock' = clock + 1
    /\ UNCHANGED <<files, saves, streaming, fpc>>
    /\ UNCHANGED <<mcvars, bvars, szvars, mtvars, dfvars, cdvars, rcvars, dtvars, bxvars, flvars, lcvars, skvars, wbvars, dpvars, xbvars, bfvars>>

\* MaxCoreVanityGenerator.save_results with addresses to save.
SaveResultsFile ==
    /\ fpc = "ready"
    /\ saves < MaxSaves
    /\ \E stem \in Stems : files' = Written(final_path(stem), saves + 1)
    /\ saves' = saves + 1
    /\ UNCHANGED <<clock, streaming, fpc>>
    /\ UNCHANGED <<mcvars, bvars, szvars, mtvars, dfvars, cdvars, rcvars, dtvars, bxvars, flvars, lcvars, skvars, wbvars, dpvars, xbvars, bfvars>>

\* The end of _execute_single_task without memory optimization and with
\* addresses found: the final file is opened for writing.
SimpleSave ==
    /\ fpc = "ready"
    /\ streaming = <<>>
    /\ saves < MaxSaves
    /\ \E stem \in Stems :
         files' = Written(FileName(stem, clock, 0, FALSE), saves + 1)
    /\ saves' = saves + 1
    /\ UNCHANGED <<clock, streaming, fpc>>
    /\ UNCHANGED <<mcvars, bvars, szvars, mtvars, dfvars, cdvars, rcvars, dtvars, bxvars, flvars, lcvars, skvars, wbvars, dpvars, xbvars, bfvars>>

\* _execute_single_task with memory optimization: the timestamp is taken
\* and the temporary file opened for writing.
StreamingOpen ==
    /\ fpc = "ready"
    /\ streaming = <<>>
    /\ saves < MaxSaves
    /\ \E stem \in Stems :
         /\ files' = Written(FileName(stem, clock, 0, TRUE), saves + 1)
         /\ streaming' = <<FileName(stem, clock, 0, TRUE)>>
    /\ saves' = saves + 1
    /\ UNCHANGED <<clock, fpc>>
    /\ UNCHANGED <<mcvars, bvars, szvars, mtvars, dfvars, cdvars, rcvars, dtvars, bxvars, flvars, lcvars, skvars, wbvars, dpvars, xbvars, bfvars>>

\* The end of that task with completed_count > 0:
\* temp_filepath.rename(final_filepath), which replaces an existing file.
StreamingRename ==
    /\ fpc = "ready"
    /\ streaming # <<>>
    /\ LET temp_filepath == streaming[1]
           final_filepath == FileName(temp_filepath.stem,
                                      temp_filepath.timestamp, 0, FALSE)
       IN files' = [n \in (DOMAIN files \ {temp_filepath}) \cup {final_filepath} |->
                      IF n = final_filepath THEN files[temp_filepath]
                      ELSE files[n]]
    /\ streaming' = <<>>
    /\ UNCHANGED <<clock, saves, fpc>>
    /\ UNCHANGED <<mcvars, bvars, szvars, mtvars, dfvars, cdvars, rcvars, dtvars, bxvars, flvars, lcvars, skvars, wbvars, dpvars, xbvars, bfvars>>

\* The end of that task with nothing found: temp_filepath.unlink().
StreamingUnlink ==
    /\ fpc = "ready"
    /\ streaming # <<>>
    /\ files' = [n \in DOMAIN files \ {streaming[1]} |-> files[n]]
    /\ streaming' = <<>>
    /\ UNCHANGED <<clock, saves, fpc>>
    /\ UNCHANGED <<mcvars, bvars, szvars, mtvars, dfvars, cdvars, rcvars, dtvars, bxvars, flvars, lcvars, skvars, wbvars, dpvars, xbvars, bfvars>>

Output ==
    \/ Tick
    \/ SaveResultsFile
    \/ SimpleSave
    \/ StreamingOpen
    \/ StreamingRename
    \/ StreamingUnlink

OutputInit ==
    /\ EnginesIdle
    /\ SizingIdle
    /\ MatchIdle
    /\ DifficultyIdle
    /\ CodecIdle
    /\ RecordIdle
    /\ DeriveIdle
    /\ Base58Idle
    /\ CollectIdle
    /\ LoadIdle
    /\ OutputReady
    /\ StopIdle
    /\ WorkerBatchIdle
    /\ DispatchIdle
    /\ ScheduleIdle
    /\ BufferIdle

OutputSpec == OutputInit /\ [][Output]_vars

\* C29: no step changes or removes an output file that exists, and a file
\* is created under a name with a numeric suffix exactly when the
\* canonical name and the names with the lower suffixes exist.
C29_NeverOverwrites ==
    [][ /\ \A n \in DOMAIN files :
             ~n.temp => (n \in DOMAIN files' /\ files'[n] = files[n])
        /\ \A n \in DOMAIN files' \ DOMAIN files :
             ~n.temp =>
                \A j \in 0 .. n.counter - 1 :
                   FileName(n.stem, n.timestamp, j, FALSE) \in DOMAIN files
      ]_vars

\* ------------------------------------------------ stop(), step by step
\* Process.is_alive(): a process that was sent SIGKILL is alive until it
\* has ended.
process_is_alive(w) == proc[w] \in {"running", "killed"}

StopReady ==
    /\ processes \in 1 .. MaxWorkers
    /\ proc = [w \in 1 .. processes |-> "running"]
    /\ stop_i = 1
    /\ stop_pc = "stop_set"
    /\ joined = {}
    /\ timeouts = [w \in 1 .. processes |-> 0]
    /\ terminated = {}
    /\ killed = {}

\* A worker process ends: its loop saw stop_event or reached its target, a
\* signal ended it, or its run ended in any other way.
ProcessEnds(w) ==
    /\ stop_pc \notin {"idle", "returned"}
    /\ process_is_alive(w)
    /\ proc' = [proc EXCEPT ![w] = "exited"]
    /\ UNCHANGED <<processes, stop_i, stop_pc, joined, timeouts, terminated,
                   killed>>
    /\ UNCHANGED <<mcvars, bvars, szvars, mtvars, dfvars, cdvars, rcvars, dtvars, bxvars, flvars, lcvars, fsvars, wbvars, dpvars, xbvars, bfvars>>

\* self.stop_event.set()
SetStopEvent ==
    /\ stop_pc = "stop_set"
    /\ stop_pc' = "join"
    /\ UNCHANGED <<processes, proc, stop_i, joined, timeouts, terminated,
                   killed>>
    /\ UNCHANGED <<mcvars, bvars, szvars, mtvars, dfvars, cdvars, rcvars, dtvars, bxvars, flvars, lcvars, fsvars, wbvars, dpvars, xbvars, bfvars>>

\* process.join(timeout=2.0) returns: the process has ended, or the
\* timeout has elapsed with the process alive.
JoinCooperative ==
    /\ stop_pc = "join"
    /\ stop_i <= processes
    /\ IF process_is_alive(stop_i)
       THEN /\ timeouts' = [timeouts EXCEPT ![stop_i] = @ + 1]
            /\ UNCHANGED joined
       ELSE /\ joined' = joined \cup {stop_i}
            /\ UNCHANGED timeouts
    /\ stop_pc' = "is_alive"
    /\ UNCHANGED <<processes, proc, stop_i, terminated, killed>>
    /\ UNCHANGED <<mcvars, bvars, szvars, mtvars, dfvars, cdvars, rcvars, dtvars, bxvars, flvars, lcvars, fsvars, wbvars, dpvars, xbvars, bfvars>>

\* if process.is_alive(): process.terminate()
TerminateIfAlive ==
    /\ stop_pc = "is_alive"
    /\ IF process_is_alive(stop_i)
       THEN /\ terminated' = terminated \cup {stop_i}
            /\ stop_pc' = "join_forced"
            /\ UNCHANGED stop_i
       ELSE /\ stop_i' = stop_i + 1
            /\ stop_pc' = "join"
            /\ UNCHANGED terminated
    /\ UNCHANGED <<processes, proc, joined, timeouts, killed>>
    /\ UNCHANGED <<mcvars, bvars, szvars, mtvars, dfvars, cdvars, rcvars, dtvars, bxvars, flvars, lcvars, fsvars, wbvars, dpvars, xbvars, bfvars>>

\* process.join(timeout=1.0) returns.
JoinForced ==
    /\ stop_pc = "join_forced"
    /\ timeouts' = IF process_is_alive(stop_i)
                   THEN [timeouts EXCEPT ![stop_i] = @ + 1]
                   ELSE timeouts
    /\ stop_pc' = "is_alive_forced"
    /\ UNCHANGED <<processes, proc, stop_i, joined, terminated, killed>>
    /\ UNCHANGED <<mcvars, bvars, szvars, mtvars, dfvars, cdvars, rcvars, dtvars, bxvars, flvars, lcvars, fsvars, wbvars, dpvars, xbvars, bfvars>>

\* if process.is_alive(): process.kill().  kill() sends SIGKILL and
\* returns; the loop goes on to the next process.
KillIfAlive ==
    /\ stop_pc = "is_alive_forced"
    /\ IF process_is_alive(stop_i)
       THEN /\ killed' = killed \cup {stop_i}
            /\ proc' = [proc EXCEPT ![stop_i] = "killed"]
       ELSE UNCHANGED <<killed, proc>>
    /\ stop_i' = stop_i + 1
    /\ stop_pc' = "join"
    /\ UNCHANGED <<processes, joined, timeouts, terminated>>
    /\ UNCHANGED <<mcvars, bvars, szvars, mtvars, dfvars, cdvars, rcvars, dtvars, bxvars, flvars, lcvars, fsvars, wbvars, dpvars, xbvars, bfvars>>

\* The for loop is over: _collect_final_results and _display_final_stats
\* run and stop() returns.
StopReturns ==
    /\ stop_pc = "join"
    /\ stop_i > processes
    /\ stop_pc' = "returned"
    /\ UNCHANGED <<processes, proc, stop_i, joined, timeouts, terminated,
                   killed>>
    /\ UNCHANGED <<mcvars, bvars, szvars, mtvars, dfvars, cdvars, rcvars, dtvars, bxvars, flvars, lcvars, fsvars, wbvars, dpvars, xbvars, bfvars>>

Stop ==
    \/ SetStopEvent
    \/ JoinCooperative
    \/ TerminateIfAlive
    \/ JoinForced
    \/ KillIfAlive
    \/ StopReturns
    \/ \E w \in 1 .. processes : ProcessEnds(w)

StopInit ==
    /\ EnginesIdle
    /\ SizingIdle
    /\ MatchIdle
    /\ DifficultyIdle
    /\ CodecIdle
    /\ RecordIdle
    /\ DeriveIdle
    /\ Base58Idle
    /\ CollectIdle
    /\ LoadIdle
    /\ OutputIdle
    /\ StopReady
    /\ WorkerBatchIdle
    /\ DispatchIdle
    /\ ScheduleIdle
    /\ BufferIdle

StopSpec == StopInit /\ [][Stop]_vars

\* The escalation of stop() is in order: terminate() only on a process
\* whose cooperative join timed out, kill() only on one whose two joins
\* timed out, neither on a process the cooperative join found exited.
EscalationInOrder ==
    /\ \A w \in terminated : timeouts[w] >= 1 /\ w \notin joined
    /\ \A w \in killed : timeouts[w] = 2 /\ w \in terminated

\* C30: the escalation of stop() is in order, and when stop() has returned
\* no worker process is alive.
C30_EscalationEndsEveryWorker ==
    /\ EscalationInOrder
    /\ stop_pc = "returned" => \A w \in 1 .. processes : ~process_is_alive(w)

\* ------------------------- one batch of _worker_process_memory_optimized
\* The batch sizes execute_single_task passes: max(10, count // workers),
\* or 50 for a task without a count.
BatchSizes == {min_batch_size, default_batch_size, default_batch_size + min_batch_size}

\* Lengths of the runs of consecutive attempts that match nothing.
MissRuns == {4999, 10000}

max_batch_uncapped(b) == b

\* max_batch_size = min(batch_size, 50)
max_batch(b) == Min(b, batch_cap)

\* while self.running and len(found) < max_batch_size
batch_loop_condition == self_running /\ len_found < max_batch(arg_batch_size)

\* The executor has unpickled the generator in a pool process and calls
\* the worker: found = [], attempts = 0.
WorkerBatchReady ==
    /\ self_running \in BOOLEAN
    /\ arg_batch_size \in BatchSizes
    /\ len_found = 0
    /\ attempts = 0
    /\ wbpc = "loop"

\* One iteration that finds a match: attempts += 1, found.append(...), and
\* the break when attempts has reached the limit.
BatchMatch ==
    /\ wbpc = "loop"
    /\ batch_loop_condition
    /\ attempts' = attempts + 1
    /\ len_found' = len_found + 1
    /\ wbpc' = IF attempts' >= attempt_cap THEN "returned" ELSE "loop"
    /\ UNCHANGED <<self_running, arg_batch_size>>
    /\ UNCHANGED <<mcvars, bvars, szvars, mtvars, dfvars, cdvars, rcvars, dtvars, bxvars, flvars, lcvars, fsvars, skvars, dpvars, xbvars, bfvars>>
\* A run of n iterations that match nothing: each adds one to attempts,
\* and the one that reaches the limit breaks out of the loop.
BatchMisses(n) ==
    /\ wbpc = "loop"
    /\ batch_loop_condition
    /\ attempts' = Min(attempts + n, attempt_cap)
    /\ wbpc' = IF attempts' >= attempt_cap THEN "returned" ELSE "loop"
    /\ UNCHANGED <<self_running, arg_batch_size, len_found>>
    /\ UNCHANGED <<mcvars, bvars, szvars, mtvars, dfvars, cdvars, rcvars, dtvars, bxvars, flvars, lcvars, fsvars, skvars, dpvars, xbvars, bfvars>>
\* except Exception: break.  network.generate() raises before attempts is
\* incremented, check_address_pattern after.
BatchException ==
    /\ wbpc = "loop"
    /\ batch_loop_condition
    /\ \E counted \in BOOLEAN :
         attempts' = IF counted THEN attempts + 1 ELSE attempts
    /\ wbpc' = "returned"
    /\ UNCHANGED <<self_running, arg_batch_size, len_found>>
    /\ UNCHANGED <<mcvars, bvars, szvars, mtvars, dfvars, cdvars, rcvars, dtvars, bxvars, flvars, lcvars, fsvars, skvars, dpvars, xbvars, bfvars>>
\* The while condition is false: return found, attempts.
BatchReturns ==
    /\ wbpc = "loop"
    /\ ~batch_loop_condition
    /\ wbpc' = "returned"
    /\ UNCHANGED <<self_running, arg_batch_size, len_found, attempts>>
    /\ UNCHANGED <<mcvars, bvars, szvars, mtvars, dfvars, cdvars, rcvars, dtvars, bxvars, flvars, lcvars, fsvars, skvars, dpvars, xbvars, bfvars>>
\* The engine has collected the batch and submits a new one with the same
\* worker_id and batch_size; the new copy of the generator is pickled at
\* the submit.
BatchRedispatch ==
    /\ wbpc = "returned"
    /\ self_running' \in BOOLEAN
    /\ len_found' = 0
    /\ attempts' = 0
    /\ wbpc' = "loop"
    /\ UNCHANGED arg_batch_size
    /\ UNCHANGED <<mcvars, bvars, szvars, mtvars, dfvars, cdvars, rcvars, dtvars, bxvars, flvars, lcvars, fsvars, skvars, dpvars, xbvars, bfvars>>
WorkerBatch ==
    \/ BatchMatch
    \/ \E n \in MissRuns : BatchMisses(n)
    \/ BatchException
    \/ BatchReturns
    \/ BatchRedispatch

WorkerBatchInit ==
    /\ EnginesIdle
    /\ SizingIdle
    /\ MatchIdle
    /\ DifficultyIdle
    /\ CodecIdle
    /\ RecordIdle
    /\ DeriveIdle
    /\ Base58Idle
    /\ CollectIdle
    /\ LoadIdle
    /\ OutputIdle
    /\ StopIdle
    /\ WorkerBatchReady
    /\ DispatchIdle
    /\ ScheduleIdle
    /\ BufferIdle

WorkerBatchSpec == WorkerBatchInit /\ [][WorkerBatch]_vars

\* A batch that can take a step takes one: the pool process runs the
\* worker until it returns.
WorkerBatchFair ==
    /\ WorkerBatchSpec
    /\ WF_vars(BatchMatch \/ BatchException \/ BatchReturns
               \/ \E n \in MissRuns : BatchMisses(n))

\* The largest number of records of a batch of size b.
RecordLimit(b) == IF b < 50 THEN b ELSE 50

\* C35: a batch holds at most min(batch_size, 50) records and has made at
\* most 50000 attempts; it has returned only with the stop signal seen,
\* the record limit or the attempt limit reached, or an exception; a
\* batch that sees the stop signal at its start returns nothing; and
\* every batch returns.
C35_BatchIsBounded ==
    /\ [](/\ len_found <= RecordLimit(arg_batch_size)
          /\ attempts <= 50000
          /\ len_found <= attempts
          /\ (wbpc = "loop" /\ ~self_running) => attempts = 0)
    /\ (wbpc = "loop") ~> (wbpc = "returned")

C35_Witness ==
    /\ wbpc = "returned"
    /\ arg_batch_size > 50
    /\ len_found = 50
    /\ attempts > 10000

\* --------------------------- the futures dict of the streaming path
\* The streaming tasks of the model, as <<task.count, workers>>.
DispatchTasks == {<<0, 1>>, <<0, 2>>, <<11, 2>>, <<0, 11>>, <<11, 11>>}

\* The number of records of a collected batch.
BatchRecords == {0, min_batch_size}

first_round_per_worker(w) == w

\* max_concurrent_futures = min(workers, 10); for worker_id in
\* range(max_concurrent_futures)
first_round(w) == Min(w, max_futures)

FutureEntry(f) == CHOOSE r \in {in_flight[k] : k \in DOMAIN in_flight} : r.future = f

\* del futures[future]
DelFuture(f) == SelectSeq(in_flight, LAMBDA r : r.future # f)

DispatchReady ==
    /\ \E t \in DispatchTasks : task_count = t[1] /\ pool_workers = t[2]
    /\ engine_running = TRUE
    /\ in_flight = <<>>
    /\ done_futures = <<>>
    /\ next_future = 0
    /\ collected = 0
    /\ resubmitted = 0
    /\ batches_done = 0
    /\ dspc = "start"

\* _signal_handler: self.running = False
DispatchSignal ==
    /\ dspc \in {"start", "while", "for"}
    /\ engine_running
    /\ engine_running' = FALSE
    /\ UNCHANGED <<batches_done, pool_workers, task_count, in_flight, done_futures,
                   next_future, collected, resubmitted, dspc>>
    /\ UNCHANGED <<mcvars, bvars, szvars, mtvars, dfvars, cdvars, rcvars, dtvars, bxvars, flvars, lcvars, fsvars, skvars, wbvars, xbvars, bfvars>>
\* futures = {} and the first round of submits, one per worker_id of
\* range(max_concurrent_futures).
FirstRound ==
    /\ dspc = "start"
    /\ in_flight' = [k \in 1 .. first_round(pool_workers) |->
                       [future |-> k, worker_id |-> k - 1, state |-> "running"]]
    /\ next_future' = first_round(pool_workers)
    /\ dspc' = "while"
    /\ UNCHANGED <<batches_done, pool_workers, task_count, engine_running, done_futures,
                   collected, resubmitted>>
    /\ UNCHANGED <<mcvars, bvars, szvars, mtvars, dfvars, cdvars, rcvars, dtvars, bxvars, flvars, lcvars, fsvars, skvars, wbvars, xbvars, bfvars>>
\* A batch returns or raises in its pool process: future.done() is true.
FutureDone(k) ==
    /\ dspc \in {"while", "for"}
    /\ in_flight[k].state = "running"
    /\ batches_done < MaxBatchesDone
    /\ batches_done' = batches_done + 1
    /\ in_flight' = [in_flight EXCEPT ![k].state = "done"]
    /\ UNCHANGED <<pool_workers, task_count, engine_running, done_futures,
                   next_future, collected, resubmitted, dspc>>
    /\ UNCHANGED <<mcvars, bvars, szvars, mtvars, dfvars, cdvars, rcvars, dtvars, bxvars, flvars, lcvars, fsvars, skvars, wbvars, xbvars, bfvars>>

\* while futures and self.running: completed_futures = the futures that
\* are done; with none of them, time.sleep(0.1) and the loop goes round.
DispatchWhile ==
    /\ dspc = "while"
    /\ IF in_flight # <<>> /\ engine_running
       THEN LET completed == SelectSeq(in_flight, LAMBDA r : r.state = "done")
            IN  /\ completed # <<>>
                /\ done_futures' = [k \in DOMAIN completed |-> completed[k].future]
                /\ dspc' = "for"
       ELSE /\ dspc' = "exit"
            /\ UNCHANGED done_futures
    /\ UNCHANGED <<batches_done, pool_workers, task_count, engine_running, in_flight,
                   next_future, collected, resubmitted>>
    /\ UNCHANGED <<mcvars, bvars, szvars, mtvars, dfvars, cdvars, rcvars, dtvars, bxvars, flvars, lcvars, fsvars, skvars, wbvars, xbvars, bfvars>>
\* for future in completed_futures: if not self.running: break
DispatchBreak ==
    /\ dspc = "for"
    /\ done_futures # <<>>
    /\ ~engine_running
    /\ done_futures' = <<>>
    /\ dspc' = "while"
    /\ UNCHANGED <<batches_done, pool_workers, task_count, engine_running, in_flight,
                   next_future, collected, resubmitted>>
    /\ UNCHANGED <<mcvars, bvars, szvars, mtvars, dfvars, cdvars, rcvars, dtvars, bxvars, flvars, lcvars, fsvars, skvars, wbvars, xbvars, bfvars>>
\* One iteration of the for loop with self.running true.  future.result()
\* or the write raises: the except branch deletes the future.  Otherwise
\* the rows are written, completed_count grows, the future is deleted,
\* and either the target is reached (futures.clear(), break) or a new
\* batch is submitted under the same worker_id; a submit that raises
\* leaves the dict as it is.
DispatchCollect ==
    /\ dspc = "for"
    /\ done_futures # <<>>
    /\ engine_running
    /\ LET f == Head(done_futures)
           worker_id == FutureEntry(f).worker_id
           deleted == DelFuture(f)
       IN  \/ /\ in_flight' = deleted
              /\ done_futures' = Tail(done_futures)
              /\ UNCHANGED <<collected, next_future, resubmitted>>
           \/ /\ \E n \in BatchRecords :
                   /\ collected' = collected + n
                   /\ IF task_count > 0 /\ collected' >= task_count
                      THEN /\ in_flight' = <<>>
                           /\ done_futures' = <<>>
                           /\ UNCHANGED <<next_future, resubmitted>>
                      ELSE /\ done_futures' = Tail(done_futures)
                           /\ IF /\ task_count = 0 \/ collected' < task_count
                                 /\ Len(deleted) < Min(pool_workers, max_futures)
                              THEN \/ /\ resubmitted < MaxRedispatch
                                      /\ in_flight' = Append(deleted,
                                            [future |-> next_future + 1,
                                             worker_id |-> worker_id,
                                             state |-> "running"])
                                      /\ next_future' = next_future + 1
                                      /\ resubmitted' = resubmitted + 1
                                   \/ /\ in_flight' = deleted
                                      /\ UNCHANGED <<next_future, resubmitted>>
                              ELSE /\ in_flight' = deleted
                                   /\ UNCHANGED <<next_future, resubmitted>>
    /\ dspc' = IF done_futures' = <<>> THEN "while" ELSE "for"
    /\ UNCHANGED <<batches_done, pool_workers, task_count, engine_running>>
    /\ UNCHANGED <<mcvars, bvars, szvars, mtvars, dfvars, cdvars, rcvars, dtvars, bxvars, flvars, lcvars, fsvars, skvars, wbvars, xbvars, bfvars>>
Dispatch ==
    \/ DispatchSignal
    \/ FirstRound
    \/ \E k \in DOMAIN in_flight : FutureDone(k)
    \/ DispatchWhile
    \/ DispatchBreak
    \/ DispatchCollect

DispatchInit ==
    /\ EnginesIdle
    /\ SizingIdle
    /\ MatchIdle
    /\ DifficultyIdle
    /\ CodecIdle
    /\ RecordIdle
    /\ DeriveIdle
    /\ Base58Idle
    /\ CollectIdle
    /\ LoadIdle
    /\ OutputIdle
    /\ StopIdle
    /\ WorkerBatchIdle
    /\ DispatchReady
    /\ ScheduleIdle
    /\ BufferIdle

DispatchSpec == DispatchInit /\ [][Dispatch]_vars

\* The number of batches that may be in flight with w workers.
InFlightLimit(w) == IF w < 10 THEN w ELSE 10

\* C38: the batches in flight carry pairwise distinct worker_ids, all of
\* 0 .. min(workers, 10) - 1, and there are never more than
\* min(workers, 10) of them.
C38_DistinctWorkerIds ==
    /\ Len(in_flight) <= InFlightLimit(pool_workers)
    /\ \A k \in DOMAIN in_flight :
         /\ in_flight[k].worker_id \in 0 .. (InFlightLimit(pool_workers) - 1)
         /\ \A j \in DOMAIN in_flight :
              in_flight[j].worker_id = in_flight[k].worker_id => j = k

C38_Witness ==
    /\ pool_workers > 10
    /\ resubmitted >= 1
    /\ Len(in_flight) = 10
    /\ \E k \in DOMAIN in_flight : in_flight[k].future > 10

\* ---------------------------------------------------------- execute_batch
\* Rows of a configuration file of well-formed tasks and a comment: two
\* tasks that differ in their priority only, and two of equal priority.
ScheduleRows ==
    { <<"# tasks">>,
      <<"BTC", "prefix", "1A", "1", "true", "3">>,
      <<"BTC", "prefix", "1A", "1", "true", "1">>,
      <<"ETH", "prefix", "a", "0", "true", "1">>,
      <<"ltc", " Suffix ", "x", "2", "FALSE", "5">> }

\* How execute_single_task runs a task with w workers (0 for None, on a
\* machine of MaxCpu processors): the simple path or the streaming path,
\* and the batch size and the number of futures of the streaming path.
execution_plan(t, w) ==
    LET n == IF w = 0 THEN Min(MaxCpu, batch_worker_cap) ELSE w
    IN  IF t.count = 0 \/ t.count > simple_limit
        THEN [path |-> "streaming",
              workers |-> n,
              batch_size |-> IF t.count > 0
                             THEN Max(min_batch_size, t.count \div n)
                             ELSE default_batch_size,
              concurrent |-> Min(n, max_futures)]
        ELSE [path |-> "simple", workers |-> n, batch_size |-> t.count,
              concurrent |-> 1]

ScheduleReady ==
    /\ config \in UNION {[1 .. n -> ScheduleRows] : n \in 0 .. MaxRows}
    /\ file_state \in {"readable", "missing"}
    /\ line_num = 0
    /\ tasks = <<>>
    /\ lpc = "reading"
    /\ batch_workers \in {0, MaxWorkers}
    /\ batch_running = TRUE
    /\ next_task = 1
    /\ executed = <<>>
    /\ xpc = "load"

\* _signal_handler: self.running = False
ScheduleSignal ==
    /\ xpc \in {"load", "confirm", "loop", "task"}
    /\ batch_running
    /\ batch_running' = FALSE
    /\ UNCHANGED <<batch_workers, next_task, executed, xpc>>
    /\ UNCHANGED lcvars
    /\ UNCHANGED <<mcvars, bvars, szvars, mtvars, dfvars, cdvars, rcvars, dtvars, bxvars, flvars, fsvars, skvars, wbvars, dpvars, bfvars>>
\* tasks = self.load_config(config_path); if not tasks: return
TasksLoaded ==
    /\ xpc = "load"
    /\ lpc \in {"returned", "failed"}
    /\ xpc' = IF tasks = <<>> THEN "done" ELSE "confirm"
    /\ UNCHANGED <<batch_workers, batch_running, next_task, executed>>
    /\ UNCHANGED lcvars
    /\ UNCHANGED <<mcvars, bvars, szvars, mtvars, dfvars, cdvars, rcvars, dtvars, bxvars, flvars, fsvars, skvars, wbvars, dpvars, bfvars>>
\* The plan is printed and the answer to the prompt is read: a refusal
\* returns.
Confirm ==
    /\ xpc = "confirm"
    /\ \E refused \in BOOLEAN : xpc' = IF refused THEN "done" ELSE "loop"
    /\ UNCHANGED <<batch_workers, batch_running, next_task, executed>>
    /\ UNCHANGED lcvars
    /\ UNCHANGED <<mcvars, bvars, szvars, mtvars, dfvars, cdvars, rcvars, dtvars, bxvars, flvars, fsvars, skvars, wbvars, dpvars, bfvars>>
\* The head of the for loop: the loop ends with the list or with
\* self.running false, otherwise execute_single_task is called.
RunTask ==
    /\ xpc = "loop"
    /\ IF next_task > Len(tasks) \/ ~batch_running
       THEN /\ xpc' = "done"
            /\ UNCHANGED executed
       ELSE /\ executed' = Append(executed,
                             [task |-> tasks[next_task],
                              plan |-> execution_plan(tasks[next_task], batch_workers)])
            /\ xpc' = "task"
    /\ UNCHANGED <<batch_workers, batch_running, next_task>>
    /\ UNCHANGED lcvars
    /\ UNCHANGED <<mcvars, bvars, szvars, mtvars, dfvars, cdvars, rcvars, dtvars, bxvars, flvars, fsvars, skvars, wbvars, dpvars, bfvars>>
\* execute_single_task returns: results.append(result), the pause, and
\* the next turn of the loop.
TaskReturns ==
    /\ xpc = "task"
    /\ next_task' = next_task + 1
    /\ xpc' = "loop"
    /\ UNCHANGED <<batch_workers, batch_running, executed>>
    /\ UNCHANGED lcvars
    /\ UNCHANGED <<mcvars, bvars, szvars, mtvars, dfvars, cdvars, rcvars, dtvars, bxvars, flvars, fsvars, skvars, wbvars, dpvars, bfvars>>
ExecuteBatch ==
    \/ LoadConfig
    \/ ScheduleSignal
    \/ TasksLoaded
    \/ Confirm
    \/ RunTask
    \/ TaskReturns

ScheduleInit ==
    /\ EnginesIdle
    /\ SizingIdle
    /\ MatchIdle
    /\ DifficultyIdle
    /\ CodecIdle
    /\ RecordIdle
    /\ DeriveIdle
    /\ Base58Idle
    /\ CollectIdle
    /\ OutputIdle
    /\ StopIdle
    /\ WorkerBatchIdle
    /\ DispatchIdle
    /\ ScheduleReady
    /\ BufferIdle

ScheduleSpec == ScheduleInit /\ [][ExecuteBatch]_vars

\* The priority written in a row of the file, 0 for a comment.
RowPriority(row) ==
    IF Len(row) < 6 THEN 0
    ELSE CASE row[6] = "1" -> 1 [] row[6] = "3" -> 3 [] row[6] = "5" -> 5

\* The currency written in a row of the file.
RowCurrency(row) == IF row[1] = "ltc" THEN "LTC" ELSE row[1]

\* The tasks executed so far are the first ones of the file in the order
\* of their priority and, within a priority, of their rows: entry k is
\* the task of the row that has k - 1 rows before it in that order.
RowRank(i) ==
    1 + Cardinality({j \in 1 .. Len(config) :
            /\ RowPriority(config[j]) > 0
            /\ \/ RowPriority(config[j]) < RowPriority(config[i])
               \/ RowPriority(config[j]) = RowPriority(config[i]) /\ j < i})

\* C36: the tasks are executed one after the other, in non-decreasing
\* priority and, within a priority, in the order of the file; and two
\* tasks that differ in their priority only are executed the same way.
C36_PriorityThenFileOrder ==
    /\ \A k \in 1 .. Len(executed) :
         \E i \in 1 .. Len(config) :
            /\ RowPriority(config[i]) > 0
            /\ RowRank(i) = k
            /\ executed[k].task.priority = RowPriority(config[i])
            /\ executed[k].task.currency = RowCurrency(config[i])
    /\ \A i, j \in 1 .. Len(executed) :
         i < j => executed[i].task.priority <= executed[j].task.priority
    /\ \A i, j \in 1 .. Len(executed) :
         [executed[i].task EXCEPT !.priority = 0] = [executed[j].task EXCEPT !.priority = 0]
            => executed[i].plan = executed[j].plan
    /\ Len(executed) = IF xpc = "task" THEN next_task ELSE next_task - 1

\* A file whose rows are not in the order of their priorities, with two
\* tasks of priority 1 and a task that differs from one of them in its
\* priority only, all three executed.
C36_Witness ==
    /\ Len(executed) = 3
    /\ config[1] = <<"BTC", "prefix", "1A", "1", "true", "3">>
    /\ config[2] = <<"ETH", "prefix", "a", "0", "true", "1">>
    /\ config[3] = <<"BTC", "prefix", "1A", "1", "true", "1">>
    /\ executed[1].task.currency = "ETH"
    /\ executed[3].task.priority = 3

\* ------------------------- the retained records and the rows written
\* Counts of the tasks: unbounded, at most simple_limit, above 1000.
BufferCounts == {0, 5, 1050}

\* Numbers of futures a scan of the while loop finds done.
ScanSizes == {1, max_futures}

\* len(worker_results) of a batch of the streaming path.
ChunkSizes == {0, min_batch_size, batch_cap}

BufferReady ==
    /\ buffer_engine \in {"max_core", "batch"}
    /\ buffer_count \in BufferCounts
    /\ in_memory = 0
    /\ persisted_rows = 0
    /\ received = 0
    /\ pending = 0
    /\ cancelled = FALSE
    /\ reported = 0
    /\ bfpc = "run"

\* SIGINT or SIGTERM: stop() of the MaxCore engine, self.running = False
\* of the batch engine.
BufferSignal ==
    /\ bfpc \in {"run", "for"}
    /\ ~cancelled
    /\ cancelled' = TRUE
    /\ UNCHANGED <<buffer_engine, buffer_count, in_memory, persisted_rows,
                   received, pending, reported, bfpc>>
    /\ UNCHANGED <<mcvars, bvars, szvars, mtvars, dfvars, cdvars, rcvars, dtvars, bxvars, flvars, lcvars, fsvars, skvars, wbvars, dpvars, xbvars>>
\* _monitor_progress takes a result off the channel and appends it to
\* self.found_addresses; with the target reached it sets stop_event.
MonitorAppend ==
    /\ bfpc = "run"
    /\ buffer_engine = "max_core"
    /\ ~cancelled
    /\ received < MaxRecords
    /\ in_memory' = in_memory + 1
    /\ received' = received + 1
    /\ bfpc' = IF buffer_count > 0 /\ in_memory' >= buffer_count
               THEN "finish" ELSE "run"
    /\ UNCHANGED <<buffer_engine, buffer_count, persisted_rows, pending,
                   cancelled, reported>>
    /\ UNCHANGED <<mcvars, bvars, szvars, mtvars, dfvars, cdvars, rcvars, dtvars, bxvars, flvars, lcvars, fsvars, skvars, wbvars, dpvars, xbvars>>
\* The monitor loop ends on the stop event.
MonitorEnds ==
    /\ bfpc = "run"
    /\ buffer_engine = "max_core"
    /\ cancelled
    /\ bfpc' = "finish"
    /\ UNCHANGED <<buffer_engine, buffer_count, in_memory, persisted_rows,
                   received, pending, cancelled, reported>>
    /\ UNCHANGED <<mcvars, bvars, szvars, mtvars, dfvars, cdvars, rcvars, dtvars, bxvars, flvars, lcvars, fsvars, skvars, wbvars, dpvars, xbvars>>
\* _display_final_stats prints len(self.found_addresses) and save_results
\* writes one row for each record of self.found_addresses.
SaveAll ==
    /\ bfpc = "finish"
    /\ buffer_engine = "max_core"
    /\ reported' = in_memory
    /\ persisted_rows' = in_memory
    /\ bfpc' = "returned"
    /\ UNCHANGED <<buffer_engine, buffer_count, in_memory, received, pending,
                   cancelled>>
    /\ UNCHANGED <<mcvars, bvars, szvars, mtvars, dfvars, cdvars, rcvars, dtvars, bxvars, flvars, lcvars, fsvars, skvars, wbvars, dpvars, xbvars>>
\* The simple path: the one _worker_process returns its records, which
\* become all_found_addresses.
SimpleTask ==
    /\ bfpc = "run"
    /\ buffer_engine = "batch"
    /\ buffer_count > 0 /\ buffer_count <= simple_limit
    /\ \E n \in 0 .. buffer_count :
         /\ in_memory' = n
         /\ received' = n
    /\ bfpc' = "finish"
    /\ UNCHANGED <<buffer_engine, buffer_count, persisted_rows, pending,
                   cancelled, reported>>
    /\ UNCHANGED <<mcvars, bvars, szvars, mtvars, dfvars, cdvars, rcvars, dtvars, bxvars, flvars, lcvars, fsvars, skvars, wbvars, dpvars, xbvars>>
\* The streaming path, while futures and self.running: the scan for the
\* futures that are done, or the end of the loop.
ScanFutures ==
    /\ bfpc = "run"
    /\ buffer_engine = "batch"
    /\ buffer_count = 0 \/ buffer_count > simple_limit
    /\ IF cancelled \/ (buffer_count > 0 /\ received >= buffer_count)
       THEN /\ bfpc' = "finish"
            /\ UNCHANGED pending
       ELSE /\ pending' \in ScanSizes
            /\ bfpc' = "for"
    /\ UNCHANGED <<buffer_engine, buffer_count, in_memory, persisted_rows,
                   received, cancelled, reported>>
    /\ UNCHANGED <<mcvars, bvars, szvars, mtvars, dfvars, cdvars, rcvars, dtvars, bxvars, flvars, lcvars, fsvars, skvars, wbvars, dpvars, xbvars>>
\* One turn of the for loop: the break on self.running false; otherwise
\* the rows of the batch are written and flushed, the records extend
\* all_found_addresses, completed_count grows, and the loop is left if
\* the target is reached.
CollectBatch ==
    /\ bfpc = "for"
    /\ pending > 0
    /\ IF cancelled
       THEN /\ pending' = 0
            /\ UNCHANGED <<in_memory, persisted_rows, received>>
       ELSE \E n \in ChunkSizes :
               /\ received + n <= MaxRecords
               /\ persisted_rows' = persisted_rows + n
               /\ in_memory' = in_memory + n
               /\ received' = received + n
               /\ pending' = IF buffer_count > 0 /\ received' >= buffer_count
                             THEN 0 ELSE pending - 1
    /\ UNCHANGED <<buffer_engine, buffer_count, cancelled, reported, bfpc>>
    /\ UNCHANGED <<mcvars, bvars, szvars, mtvars, dfvars, cdvars, rcvars, dtvars, bxvars, flvars, lcvars, fsvars, skvars, wbvars, dpvars, xbvars>>
\* The memory limit test at the end of a turn of the while loop.
CheckMemoryLimit ==
    /\ bfpc = "for"
    /\ pending = 0
    /\ in_memory' = MemoryLimit(in_memory)
    /\ bfpc' = "run"
    /\ UNCHANGED <<buffer_engine, buffer_count, persisted_rows, received,
                   pending, cancelled, reported>>
    /\ UNCHANGED <<mcvars, bvars, szvars, mtvars, dfvars, cdvars, rcvars, dtvars, bxvars, flvars, lcvars, fsvars, skvars, wbvars, dpvars, xbvars>>
\* The end of execute_single_task: completed_count =
\* len(all_found_addresses), task.found_addresses = completed_count, the
\* rows of the simple path are written, "Найдено" is printed.
ReportTask ==
    /\ bfpc = "finish"
    /\ buffer_engine = "batch"
    /\ reported' = in_memory
    /\ persisted_rows' = IF buffer_count > 0 /\ buffer_count <= simple_limit
                         THEN in_memory ELSE persisted_rows
    /\ bfpc' = "returned"
    /\ UNCHANGED <<buffer_engine, buffer_count, in_memory, received, pending,
                   cancelled>>
    /\ UNCHANGED <<mcvars, bvars, szvars, mtvars, dfvars, cdvars, rcvars, dtvars, bxvars, flvars, lcvars, fsvars, skvars, wbvars, dpvars, xbvars>>
Buffer ==
    \/ BufferSignal
    \/ MonitorAppend
    \/ MonitorEnds
    \/ SaveAll
    \/ SimpleTask
    \/ ScanFutures
    \/ CollectBatch
    \/ CheckMemoryLimit
    \/ ReportTask

BufferInit ==
    /\ EnginesIdle
    /\ SizingIdle
    /\ MatchIdle
    /\ DifficultyIdle
    /\ CodecIdle
    /\ RecordIdle
    /\ DeriveIdle
    /\ Base58Idle
    /\ CollectIdle
    /\ LoadIdle
    /\ OutputIdle
    /\ StopIdle
    /\ WorkerBatchIdle
    /\ DispatchIdle
    /\ ScheduleIdle
    /\ BufferReady

BufferSpec == BufferInit /\ [][Buffer]_vars

\* C31: an engine that holds more than 1000 records in memory has written
\* every record it received, and a step that removes records from memory
\* removes none that is not written.
C31_BufferFlushedAboveThreshold ==
    [][ /\ in_memory' > 1000 => persisted_rows' >= received'
        /\ in_memory' < in_memory => persisted_rows >= received ]_vars

\* C37: when execute_single_task has returned, the count it reports is the
\* number of match rows of the task's output file.
C37_ReportedEqualsPersisted ==
    (bfpc = "returned" /\ buffer_engine = "batch") => reported = persisted_rows

MaxCore ==
    \/ Engine
    \/ \E w \in Workers : Worker(w)

Spec == Init /\ [][MaxCore]_vars

====
